---- MODULE Spec2Model ----
(***************************************************************************)
(* consul-alerting: the distributed monitoring engine.                     *)
(*                                                                         *)
(* Part I   pure helpers: the JSON codec of the stored state, KV reads     *)
(*          and writes, health diff, aggregation, the texts of an alert    *)
(*          (check.go, alert.go, watch.go).                                *)
(* Part II  the alert engine of ONE subject shared by the daemons of       *)
(*          Inst: LockHelper.start/stop, the watch loop and the tryAlert   *)
(*          goroutines, over one Consul KV store (for the node,            *)
(*          specification Spec while a session is lost and SpecRetire      *)
(*          while a watch is stopped; SpecStable for the runs in which no  *)
(*          tenure ends, SpecFirst for those in which the health stands    *)
(*          still as well, SpecInherited for one leader that takes over    *)
(*          the store of an earlier tenure).                               *)
(*          SpecTagged is the engine of one tag of a service with          *)
(*          distinct_tags, whose catalog requests may fail, SpecFailover   *)
(*          the change of leader under fair scheduling of the goroutines.  *)
(*          Under one leader, SpecFaults and SpecRetry let                 *)
(*          updateCheckState and the health query fail,                    *)
(*          SpecSinkFaults lets a handler fail, SpecDeleted lets the alert *)
(*          key disappear, SpecCorrupt starts from a store with a damaged  *)
(*          value and lets the reads of the callback fail,                 *)
(*          SpecAlertLock damages the alert key while tryAlert runs and    *)
(*          lets its requests fail,                                        *)
(*          SpecExit lets a daemon's process end, and SpecDeregister       *)
(*          removes checks of the subject from Consul.                     *)
(* Part III teardown of ONE daemon: discoverServices, discoverNodes (when  *)
(*          node_watch is global) or the local node watch, the watch       *)
(*          goroutines they spawn and shutdown() (specification            *)
(*          SpecShutdown; SpecLockKey lets client.LockKey fail).           *)
(* Part IV  the helper functions called on their own, on bounded inputs    *)
(*          (specification SpecCalls).                                     *)
(*                                                                         *)
(* Goroutines interleave freely; every step between two points where       *)
(* another goroutine or another daemon can observe a difference is one     *)
(* action.  Every request to Consul is a step of its own: the callback     *)
(* lists the keys, reads them one by one and then fills the map entry by   *)
(* entry; a cycle of watch() is the query with its diff (for a tag, one    *)
(* step more per request to the catalog), one write per update, the        *)
(* commit entry by entry, and computeHealth; tryAlert reads                *)
(* the alert state, calls the handlers and stores it in three steps; a     *)
(* discovery worker blocks in its catalog query after the select.          *)
(* lastCheckStatus is a Go map shared by the start goroutine and the       *)
(* watch goroutine without a lock: when both are about to touch it,        *)
(* either goes first or the runtime ends the process (MapRaceAbort).       *)
(* A stored value is the JSON text json.Marshal writes, token by token,    *)
(* and is read back by decoding it.                                        *)
(* Time is not measured: a quiescence sleep ends at any later              *)
(* step, and "a status is held for change_threshold" means that no further *)
(* status change arrives before the engine has settled.                    *)
(***************************************************************************)
EXTENDS Integers, Sequences, FiniteSets, TLC

(***************************************************************************)
(* Bounds of the model.                                                    *)
(***************************************************************************)
MaxChanges == 2
MaxHandoffChanges == 1
MaxDisruptions == 1
MaxFaultChanges == 3
MaxRetryChanges == 2

(***************************************************************************)
(* Part I: helpers                                                         *)
(***************************************************************************)
HealthPassing == "passing"
HealthWarning == "warning"
HealthCritical == "critical"
Statuses == {HealthPassing, HealthWarning, HealthCritical}

\* The daemons that run a monitor for the subject.
Inst == {1, 2}

\* Severity order of the statuses (passing < warning < critical).
Severity(s) == IF s = HealthCritical THEN 2 ELSE IF s = HealthWarning THEN 1 ELSE 0

\* The health checks registered in Consul: identity (node, check id) and the
\* id of the service the check belongs to ("" for a node-level check).
CheckIds == {<<"n1", "mem">>, <<"n1", "svc">>, <<"n2", "api">>, <<"n3", "api">>}
ServiceIDOf(k) == IF k[2] = "svc" THEN "redis" ELSE IF k[2] = "api" THEN "api" ELSE ""

\* Tags of the service registrations in the catalog (Catalog().Node).
NodeServiceTags(node, service) ==
  IF service = "redis" /\ node = "n1" THEN {"alpha", "beta"}
  ELSE IF service = "redis" /\ node = "n2" THEN {"alpha"}
  ELSE IF service = "api" /\ node = "n2" THEN {"blue"}
  ELSE IF service = "api" /\ node = "n3" THEN {"green"}
  ELSE {}

\* The subjects a watch can be started for (WatchOptions.node/service/tag).
NodeSubject == [node |-> "n1", service |-> "", tag |-> ""]
ServiceSubject == [node |-> "", service |-> "redis", tag |-> ""]
Subjects == {NodeSubject, ServiceSubject}

\* A service with distinct_tags: the subject of one of its tags.
TaggedSubject == [node |-> "", service |-> "api", tag |-> "blue"]

\* A service without distinct_tags that has a check on each of two nodes.
ApiSubject == [node |-> "", service |-> "api", tag |-> ""]
AllSubjects == Subjects \cup {TaggedSubject, ApiSubject}

NodeWatch == "node"
ServiceWatch == "service"
WatchMode(o) == IF o.service # "" THEN ServiceWatch ELSE NodeWatch

\* The value of health for a check that is not registered in Consul (after
\* Agent().CheckDeregister): the health queries do not return it.
Deregistered == "deregistered"

\* api.HealthCheck records of a health snapshot h (check id -> status).
HealthChecks(h, ids) ==
  {[Node |-> k[1], CheckID |-> k[2], ServiceID |-> ServiceIDOf(k), Status |-> h[k]] :
     k \in {x \in ids : h[x] # Deregistered}}

\* The checks the health query of subject o returns:
\* client.Health().Node(node) / client.Health().Checks(service)
VisibleChecks(o) ==
  IF WatchMode(o) = NodeWatch
  THEN {k \in CheckIds : k[1] = o.node}
  ELSE {k \in CheckIds : ServiceIDOf(k) = o.service}

QueryChecks(o, h) == HealthChecks(h, VisibleChecks(o))

\* ---- KV paths (below the root service/consul-alerting) ----
TagPath(tag) == IF tag # "" THEN <<tag>> ELSE <<>>

keyPath(o) ==
  IF WatchMode(o) = ServiceWatch
  THEN <<"service", o.service>> \o TagPath(o.tag)
  ELSE <<"node", o.node>>

lockPath(o) == keyPath(o) \o <<"leader">>
alertPath(o) == keyPath(o) \o <<"alert">>

\* The key updateCheckState writes a CheckUpdate to.
checkStatePath(update) ==
  IF update.check.ServiceID # ""
  THEN <<"service", update.check.ServiceID>> \o TagPath(update.ServiceTag)
         \o <<update.check.Node, update.check.CheckID>>
  ELSE <<"node", update.check.Node, update.check.CheckID>>

IsPrefix(p, q) == Len(p) <= Len(q) /\ SubSeq(q, 1, Len(p)) = p

\* ---- Texts ----
\* A Go string whose characters matter is a text: a sequence of pieces, each
\* one of the characters encoding/json escapes in a string (the double
\* quote, the backslash, the line feed and the HTML characters <, > and &)
\* or a run of other characters.  No two runs are adjacent.  The texts hold
\* no further control character and no line separator (U+2028, U+2029),
\* which encoding/json would escape as well.
Quote == "QUOTE"
Backslash == "BACKSLASH"
Newline == "NEWLINE"
Less == "LESS"
Greater == "GREATER"
Ampersand == "AMPERSAND"
Specials == {Quote, Backslash, Newline, Less, Greater, Ampersand}
IsRun(piece) == piece \notin Specials

\* The text of a string without such characters, and the string of a text.
Text(word) == IF word = "" THEN <<>> ELSE <<word>>
RECURSIVE StringOf(_)
StringOf(text) ==
  IF text = <<>> THEN ""
  ELSE IF Len(text) = 1 THEN text[1]
  ELSE text[1] \o StringOf(Tail(text))

\* a + b
concat(a, b) ==
  IF a # <<>> /\ b # <<>> /\ IsRun(a[Len(a)]) /\ IsRun(b[1])
  THEN SubSeq(a, 1, Len(a) - 1) \o <<a[Len(a)] \o b[1]>> \o Tail(b)
  ELSE a \o b

\* strings.TrimSpace: the line feeds at both ends go (no run of the model
\* begins or ends with a blank)
RECURSIVE trimSpace(_)
trimSpace(text) ==
  IF text = <<>> THEN text
  ELSE IF text[1] = Newline THEN trimSpace(Tail(text))
  ELSE IF text[Len(text)] = Newline THEN trimSpace(SubSeq(text, 1, Len(text) - 1))
  ELSE text

\* ---- State codec ----
\* The JSON text of a value is a sequence of tokens: the quote that opens
\* and closes a string, the backslash that starts an escape, the letter or
\* code of an escape, and runs of other characters.
\* encoding/json, encodeState.string: the characters it escapes and what it
\* writes for each (escapeHTML is on for json.Marshal).
Escapes ==
  (Quote :> <<Backslash, Quote>>) @@ (Backslash :> <<Backslash, Backslash>>) @@
  (Newline :> <<Backslash, "n">>) @@ (Less :> <<Backslash, "u003c">>) @@
  (Greater :> <<Backslash, "u003e">>) @@ (Ampersand :> <<Backslash, "u0026">>)

\* Faulty variant: the quote inside a string is written as it is.
escapeOfBareQuote(piece) ==
  IF piece \in DOMAIN Escapes \ {Quote} THEN Escapes[piece] ELSE <<piece>>

\* The escape of one character; a run is written as it is.
escapeOf(piece) ==
  IF piece \in DOMAIN Escapes THEN Escapes[piece] ELSE <<piece>>

RECURSIVE escaped(_)
escaped(text) ==
  IF text = <<>> THEN <<>> ELSE escapeOf(Head(text)) \o escaped(Tail(text))

\* json.Marshal of a string
encodeString(text) == <<Quote>> \o escaped(text) \o <<Quote>>

\* A value that does not decode.
BadValue == [ok |-> FALSE, value |-> <<>>]

\* The escapes of the decoder and the piece each stands for; "" stands for
\* an escape JSON does not know.
Unescapes ==
  (Quote :> Quote) @@ (Backslash :> Backslash) @@ ("n" :> Newline) @@ ("u003c" :> Less) @@
  ("u003e" :> Greater) @@ ("u0026" :> Ampersand)
unescapeOf(code) ==
  IF code \in DOMAIN Unescapes THEN Unescapes[code] ELSE ""

\* The tokens that do not stand for themselves inside a string literal.
Delimiters == {Quote, Backslash, Newline}

\* The scan of a string literal after its opening quote: the pieces up to
\* the closing quote, which must end the value; a line feed inside the
\* literal and an unknown escape are syntax errors.
RECURSIVE unquote(_, _)
unquote(rest, acc) ==
  IF rest = <<>> THEN BadValue
  ELSE IF rest[1] \notin Delimiters
  THEN unquote(Tail(rest), concat(acc, <<rest[1]>>))
  ELSE IF rest[1] = Quote
  THEN (IF Len(rest) = 1 THEN [ok |-> TRUE, value |-> acc] ELSE BadValue)
  ELSE IF rest[1] = Backslash
  THEN (IF Len(rest) < 2 \/ unescapeOf(rest[2]) = "" THEN BadValue
        ELSE unquote(SubSeq(rest, 3, Len(rest)), Append(acc, unescapeOf(rest[2]))))
  ELSE BadValue

\* json.Unmarshal into a string field: [ok, value]
decodeString(tokens) ==
  IF tokens = <<>> \/ tokens[1] # Quote THEN BadValue
  ELSE unquote(Tail(tokens), <<>>)

\* strconv.FormatInt(n, 10) for n >= 0: one token per digit
Digits == <<"0", "1", "2", "3", "4", "5", "6", "7", "8", "9">>
RECURSIVE formatInt(_)
formatInt(n) ==
  IF n < 10 THEN <<Digits[n + 1]>>
  ELSE Append(formatInt(n \div 10), Digits[(n % 10) + 1])

IsDigit(token) == \E d \in 1..10 : Digits[d] = token
DigitValue(token) == (CHOOSE d \in 1..10 : Digits[d] = token) - 1

RECURSIVE parseDigits(_, _)
parseDigits(tokens, acc) ==
  IF tokens = <<>> THEN acc
  ELSE parseDigits(Tail(tokens), 10 * acc + DigitValue(Head(tokens)))

\* json.Unmarshal into an int64 field: digits, without a leading zero
decodeInt(tokens) ==
  IF \/ tokens = <<>>
     \/ \E k \in 1..Len(tokens) : ~IsDigit(tokens[k])
     \/ (Len(tokens) > 1 /\ tokens[1] = "0")
  THEN [ok |-> FALSE, value |-> 0]
  ELSE [ok |-> TRUE, value |-> parseDigits(tokens, 0)]

\* A JSON object is the sequence of its members, [key, value], the value
\* being its JSON text.
Member(key, value) == [key |-> key, value |-> value]

\* The member that sets the field of the key: the last one with the key, 0
\* when there is none.
RECURSIVE memberOf(_, _, _)
memberOf(doc, key, n) ==
  IF n = 0 THEN 0
  ELSE IF doc[n].key = key THEN n ELSE memberOf(doc, key, n - 1)

\* The field of a key after json.Unmarshal: a missing key leaves the zero
\* value; decode is decodeString or decodeInt.
stringField(doc, key) ==
  LET n == memberOf(doc, key, Len(doc))
  IN  IF n = 0 THEN [ok |-> TRUE, value |-> <<>>] ELSE decodeString(doc[n].value)
intField(doc, key) ==
  LET n == memberOf(doc, key, Len(doc))
  IN  IF n = 0 THEN [ok |-> TRUE, value |-> 0] ELSE decodeInt(doc[n].value)

\* A KV entry: the key exists or not; raw tells an empty value from a JSON
\* object (doc) and from a value that is no JSON document.
NoKey == [exists |-> FALSE, raw |-> "empty", doc |-> <<>>]
EmptyValue == [NoKey EXCEPT !.exists = TRUE]
CorruptValue == [NoKey EXCEPT !.exists = TRUE, !.raw = "corrupt"]

\* json.Marshal(CheckState{Status})
marshalCheckState(cs) ==
  [exists |-> TRUE, raw |-> "json",
   doc |-> <<Member("status", encodeString(Text(cs.Status)))>>]

\* json.Marshal(AlertState): the fields in the order of the struct
marshalAlertState(a) ==
  [exists |-> TRUE, raw |-> "json",
   doc |-> <<Member("status", encodeString(Text(a.Status))),
             Member("node", encodeString(Text(a.Node))),
             Member("service", encodeString(Text(a.Service))),
             Member("tag", encodeString(Text(a.Tag))),
             Member("update_index", formatInt(a.UpdateIndex)),
             Member("last_alerted", encodeString(Text(a.LastAlerted))),
             Member("message", encodeString(a.Message)),
             Member("details", encodeString(a.Details))>>]

\* json.Unmarshal(value, &CheckState{}): [ok, cs]; unknown keys are ignored
unmarshalCheckState(doc) ==
  LET status == stringField(doc, "status")
  IN  [ok |-> status.ok, cs |-> [Status |-> StringOf(status.value)]]

\* AlertState{}
NilAlert ==
  [Status |-> "", Node |-> "", Service |-> "", Tag |-> "", UpdateIndex |-> 0,
   LastAlerted |-> "", Message |-> <<>>, Details |-> <<>>]

\* json.Unmarshal(value, &AlertState{}): [ok, alert]
unmarshalAlertState(doc) ==
  LET status == stringField(doc, "status")
      node == stringField(doc, "node")
      service == stringField(doc, "service")
      tag == stringField(doc, "tag")
      index == intField(doc, "update_index")
      last == stringField(doc, "last_alerted")
      message == stringField(doc, "message")
      details == stringField(doc, "details")
  IN  [ok |-> /\ status.ok /\ node.ok /\ service.ok /\ tag.ok /\ index.ok /\ last.ok
              /\ message.ok /\ details.ok,
       alert |-> [Status |-> StringOf(status.value), Node |-> StringOf(node.value),
                  Service |-> StringOf(service.value), Tag |-> StringOf(tag.value),
                  UpdateIndex |-> index.value, LastAlerted |-> StringOf(last.value),
                  Message |-> message.value, Details |-> details.value]]

\* getCheckState: (nil?, CheckState, err?).  A missing key yields an empty
\* CheckState, an empty value yields nil, a value that does not parse yields
\* nil and an error.
getCheckState(entry) ==
  IF ~entry.exists THEN [nil |-> FALSE, cs |-> [Status |-> ""], err |-> FALSE]
  ELSE IF entry.raw = "empty" THEN [nil |-> TRUE, cs |-> [Status |-> ""], err |-> FALSE]
  ELSE IF entry.raw = "corrupt" THEN [nil |-> TRUE, cs |-> [Status |-> ""], err |-> TRUE]
  ELSE LET got == unmarshalCheckState(entry.doc)
       IN  IF got.ok THEN [nil |-> FALSE, cs |-> got.cs, err |-> FALSE]
           ELSE [nil |-> TRUE, cs |-> [Status |-> ""], err |-> TRUE]

\* getAlertState: (nil?, AlertState, err?).  Missing key and empty value yield
\* nil, a value that does not parse yields nil and an error.
getAlertState(entry) ==
  IF ~entry.exists THEN [nil |-> TRUE, alert |-> NilAlert, err |-> FALSE]
  ELSE IF entry.raw = "empty" THEN [nil |-> TRUE, alert |-> NilAlert, err |-> FALSE]
  ELSE IF entry.raw = "corrupt" THEN [nil |-> TRUE, alert |-> NilAlert, err |-> TRUE]
  ELSE LET got == unmarshalAlertState(entry.doc)
       IN  IF got.ok THEN [nil |-> FALSE, alert |-> got.alert, err |-> FALSE]
           ELSE [nil |-> TRUE, alert |-> NilAlert, err |-> TRUE]

\* The order in which client.KV().Keys lists the keys: by their strings.  The
\* path segments of the model in alphabetical order; no segment is a prefix
\* of another, so the keys compare segment by segment.
Segments ==
  <<"alert", "api", "blue", "leader", "mem", "n1", "n2", "n3", "node", "redis", "service", "svc">>
SegRank(seg) == CHOOSE k \in 1..Len(Segments) : Segments[k] = seg
KeyLess(p, q) ==
  \E k \in 1..Len(q) :
    /\ k - 1 <= Len(p)
    /\ SubSeq(p, 1, k - 1) = SubSeq(q, 1, k - 1)
    /\ k <= Len(p) => SegRank(p[k]) < SegRank(q[k])

\* The paths ps in the order of their strings, as a listing returns them.
RECURSIVE sortedKeys(_)
sortedKeys(ps) ==
  IF ps = {} THEN <<>>
  ELSE LET first == CHOOSE p \in ps : \A q \in ps \ {p} : KeyLess(p, q)
       IN  <<first>> \o sortedKeys(ps \ {first})

\* keyName[len(keyName)-2] + "/" + keyName[len(keyName)-1]
checkName(path) == <<path[Len(path) - 1], path[Len(path)]>>

\* One round of the loop of getCheckStates on the key path, for which
\* getCheckState has returned got: the map checkStates (name -> status) after
\* the round.  A nil CheckState (empty value) adds nothing; a missing key
\* adds an empty one.
checkStatesAfter(states, path, got) ==
  IF got.nil THEN states
  ELSE [n \in DOMAIN states \cup {checkName(path)} |->
          IF n = checkName(path) THEN got.cs.Status ELSE states[n]]

\* ---- Aggregation ----
\* Faulty variant: a warning entry replaces whatever was found before.
healthAfterUnguarded(health, status) ==
  IF status = HealthWarning THEN HealthWarning
  ELSE IF status = HealthCritical THEN HealthCritical
  ELSE health

\* The switch in the loop of computeHealth: health after one more entry.
healthAfter(health, status) ==
  IF status = HealthWarning
  THEN (IF health # HealthCritical THEN HealthWarning ELSE health)
  ELSE IF status = HealthCritical THEN HealthCritical
  ELSE health

RECURSIVE computeHealthFrom(_, _, _)
computeHealthFrom(acc, checks, keys) ==
  IF keys = {} THEN acc
  ELSE LET k == CHOOSE x \in keys : TRUE
       IN  computeHealthFrom(healthAfter(acc, checks[k]), checks, keys \ {k})

\* computeHealth(checks map[string]string)
computeHealth(checks) == computeHealthFrom(HealthPassing, checks, DOMAIN checks)

\* ---- Health diff ----
checkHash(check) == <<check.Node, check.CheckID>>

\* Faulty variant: a check that is new to lastStatus is no update.
serviceCheckUpdatedChangedOnly(check, lastStatus, o, failed) ==
  LET h == checkHash(check) IN
  h \in DOMAIN lastStatus /\ lastStatus[h] # check.Status

\* Is the check part of the result of diffServiceChecks?  failed holds the
\* nodes for which opts.client.Catalog().Node returns an error: the check
\* of such a node is passed over (continue).
serviceCheckUpdated(check, lastStatus, o, failed) ==
  LET h == checkHash(check) IN
  IF h \in DOMAIN lastStatus /\ lastStatus[h] # check.Status
  THEN (IF o.tag # ""
        THEN check.Node \notin failed /\ o.tag \in NodeServiceTags(check.Node, o.service)
        ELSE TRUE)
  ELSE h \notin DOMAIN lastStatus

\* diffServiceChecks(checks, lastStatus, opts): check hash -> CheckUpdate,
\* when the catalog requests for the nodes of failed return an error
diffServiceChecks(checks, lastStatus, o, failed) ==
  LET upd == {c \in checks : serviceCheckUpdated(c, lastStatus, o, failed)}
  IN  [h \in {checkHash(c) : c \in upd} |->
         [ServiceTag |-> o.tag, check |-> CHOOSE c \in upd : checkHash(c) = h]]

\* Is the check part of the result of diffNodeChecks?
nodeCheckUpdated(check, lastStatus, o) ==
  LET h == <<o.node, check.CheckID>> IN
  /\ check.ServiceID = ""
  /\ (h \in DOMAIN lastStatus => lastStatus[h] # check.Status)

\* Faulty variant: a check seen for the first time is no update.
diffNodeChecksNoNew(checks, lastStatus, o) ==
  LET upd == {c \in checks : <<o.node, c.CheckID>> \in DOMAIN lastStatus /\ nodeCheckUpdated(c, lastStatus, o)}
  IN  [h \in {<<o.node, c.CheckID>> : c \in upd} |->
         [ServiceTag |-> "", check |-> CHOOSE c \in upd : <<o.node, c.CheckID>> = h]]

\* diffNodeChecks(checks, lastStatus, opts): check hash -> CheckUpdate
diffNodeChecks(checks, lastStatus, o) ==
  LET upd == {c \in checks : nodeCheckUpdated(c, lastStatus, o)}
  IN  [h \in {<<o.node, c.CheckID>> : c \in upd} |->
         [ServiceTag |-> "", check |-> CHOOSE c \in upd : <<o.node, c.CheckID>> = h]]

\* diffCheckFunc as selected in watch()
diffCheckFunc(checks, lastStatus, o, failed) ==
  IF WatchMode(o) = ServiceWatch
  THEN diffServiceChecks(checks, lastStatus, o, failed)
  ELSE diffNodeChecks(checks, lastStatus, o)

\* ---- The texts of an alert ----
\* config.ConsulDatacenter
Datacenter == "dc1"

\* name in watch(): the mode and the node, or the mode and the service with
\* its tag
SubjectName(o) ==
  IF WatchMode(o) = ServiceWatch
  THEN ServiceWatch \o " " \o o.service
         \o (IF o.tag # "" THEN " (tag: " \o o.tag \o ")" ELSE "")
  ELSE NodeWatch \o " " \o o.node

\* fmt.Sprintf("[%s] %s is now %s", opts.config.ConsulDatacenter, name, newStatus)
alertMessage(o, status) ==
  <<"[" \o Datacenter \o "] " \o SubjectName(o) \o " is now " \o status>>

\* api.HealthCheck.Name and .Output: a check is registered under its id, and
\* a check that fails reports one line.
CheckName(check) == check.CheckID
CheckOutput(check) ==
  IF check.Status = HealthPassing THEN <<>> ELSE <<"free ", Less, " 5%", Newline>>

Failing(check) == check.Status \in {HealthCritical, HealthWarning}

\* The checks of a response in its order: by node and check id.
checkList(checks) ==
  LET hashes == sortedKeys({checkHash(c) : c \in checks})
  IN  [k \in 1..Len(hashes) |-> CHOOSE c \in checks : checkHash(c) = hashes[k]]

\* fmt.Sprintf(arrow + " (check) %s:\n%s", check.Name, check.Output), the
\* arrow being "=>" or "==>": shaft and the greater-than sign
checkLines(shaft, check) ==
  concat(<<shaft, Greater, " (check) " \o CheckName(check) \o ":", Newline>>, CheckOutput(check))

\* The loop of nodeDetails over the checks.
RECURSIVE nodeDetailsFrom(_, _)
nodeDetailsFrom(list, details) ==
  IF list = <<>> THEN details
  ELSE LET check == Head(list)
       IN  nodeDetailsFrom(Tail(list),
                           IF check.ServiceID = "" /\ Failing(check)
                           THEN concat(details, checkLines("=", check))
                           ELSE details)

\* nodeDetails(checks)
nodeDetails(checks) ==
  LET details == nodeDetailsFrom(checkList(checks), <<>>)
  IN  trimSpace(IF details # <<>>
                THEN concat(<<"Failing checks:", Newline>>, details)
                ELSE details)

\* nodeStatuses[node] after the first loop of serviceDetails.
RECURSIVE nodeStatusFrom(_, _, _)
nodeStatusFrom(list, node, status) ==
  IF list = <<>> THEN status
  ELSE LET check == Head(list)
       IN  nodeStatusFrom(Tail(list), node,
                          IF check.Node = node /\ Failing(check)
                          THEN concat(status, checkLines("==", check))
                          ELSE status)

\* The range over nodeStatuses, which visits the nodes in the order order.
RECURSIVE serviceDetailsFrom(_, _, _)
serviceDetailsFrom(order, list, details) ==
  IF order = <<>> THEN details
  ELSE serviceDetailsFrom(Tail(order), list,
         concat(concat(details, <<"=", Greater, " (node) " \o Head(order), Newline>>),
                nodeStatusFrom(list, Head(order), <<>>)))

\* serviceDetails(checks), when the range over the map of the failing nodes
\* visits them in the order order
serviceDetails(checks, order) ==
  trimSpace(IF order # <<>>
            THEN serviceDetailsFrom(order, checkList(checks), <<"Failing checks:", Newline>>)
            ELSE <<>>)

\* The orders in which a range over a Go map with the keys of S can visit
\* them.
MapOrders(S) ==
  {f \in [1..Cardinality(S) -> S] : \A a, b \in 1..Cardinality(S) : a # b => f[a] # f[b]}

\* alert.Details as watch() sets it: the values the call can return.
alertDetails(o, checks) ==
  IF WatchMode(o) = NodeWatch THEN {nodeDetails(checks)}
  ELSE {serviceDetails(checks, order) :
          order \in MapOrders({c.Node : c \in {x \in checks : Failing(x)}})}

\* ---- The diff of a tag's watch, request by request ----
\* diffServiceChecks asks the catalog for the node of the check: its status
\* differs from its entry in lastStatus and the watch is the one of a tag.
needsLookup(check, lastStatus, o) ==
  /\ o.tag # ""
  /\ checkHash(check) \in DOMAIN lastStatus
  /\ lastStatus[checkHash(check)] # check.Status

\* updates[checkHash] = CheckUpdate{ServiceTag: opts.tag, HealthCheck: check}
withUpdate(updates, check, o) ==
  [h \in DOMAIN updates \cup {checkHash(check)} |->
     IF h = checkHash(check) THEN [ServiceTag |-> o.tag, check |-> check] ELSE updates[h]]

\* The loop of diffServiceChecks from the head of todo up to the next check
\* with a request to the catalog, or to the end of the checks: the updates
\* so far and the checks still to visit.
RECURSIVE diffServiceScan(_, _, _, _)
diffServiceScan(todo, updates, lastStatus, o) ==
  IF todo = <<>> \/ needsLookup(Head(todo), lastStatus, o)
  THEN [updates |-> updates, todo |-> todo]
  ELSE diffServiceScan(Tail(todo),
                       IF serviceCheckUpdated(Head(todo), lastStatus, o, {})
                       THEN withUpdate(updates, Head(todo), o)
                       ELSE updates,
                       lastStatus, o)

\* diffCheckFunc(checks, lastCheckStatus, opts) up to its first request to
\* the catalog; diffNodeChecks makes none.
diffScan(checks, lastStatus, o) ==
  IF WatchMode(o) = ServiceWatch
  THEN diffServiceScan(checkList(checks), <<>>, lastStatus, o)
  ELSE [updates |-> diffNodeChecks(checks, lastStatus, o), todo |-> <<>>]

(***************************************************************************)
(* Part II: the alert engine of one subject                                *)
(***************************************************************************)
VARIABLES
  opts,             \* the subject every daemon of Inst monitors (WatchOptions)
  health,           \* Consul: check id -> current status
  kv,               \* Consul KV: path -> entry (check states, alert state)
  lockHolder,       \* Consul: the daemon whose session holds the leader key, 0 if free
  lpc,              \* LockHelper.start goroutine: position
  wpc,              \* watch goroutine: position
  acquired,         \* LockHelper.acquired
  isHeld,           \* api.Lock.isHeld
  intClosed,        \* the channel returned by Lock() has been closed (lock lost)
  stopCh,           \* LockHelper.stopCh holds a value (capacity 1)
  lockCh,           \* LockHelper.lockCh holds a value (capacity 1)
  stopSt,           \* WatchOptions.stopCh: progress of the two sends to this watch
  lastCheckStatus,  \* watch(): lastCheckStatus map
  lastAlertStatus,  \* watch(): lastAlertStatus
  cycle,            \* watch(): the cycle in progress: checks, updates, diff and writes left
  loading,          \* loadCheckStates: the keys still to read and the states read so far
  tasks,            \* the tryAlert goroutines of the watch, in spawn order
  alertLock,        \* WatchOptions.alertLock: index of the owning task, 0 if free
  emitted,          \* history: the handler invocations, fleet wide, in order
  expected,         \* history: the changes of the subject's real aggregate status
  held,             \* history: every change of the aggregate found the engine settled
  flap,             \* history: progress of a status flip A -> B -> A inside one window
  changes,          \* history: number of health changes so far
  losses,           \* history: number of lost sessions so far
  stops,            \* history: number of watches told to stop so far
  wlog              \* history: KV writes as (daemon, key kind, was leader)

engineVars == <<lpc, wpc, lockHolder, acquired, isHeld, intClosed, stopCh, lockCh, stopSt,
                cycle, loading, alertLock, changes, losses, stops, held, flap, opts, health,
                lastCheckStatus, lastAlertStatus, tasks, emitted, expected, kv, wlog>>

\* The state of Part III (discovery and teardown of one daemon), which the
\* alert engine leaves alone.
VARIABLES
  catalog,         \* Consul catalog: the registered services
  catalogChanges,  \* history: number of catalog changes so far
  services,        \* discoverServices: the keys of its services map
  watchStopCh,     \* discoverServices: stopCh map, key -> watch; 0 is the nil channel
  monitors,        \* the watch goroutines in spawn order: [key, pc, acquired, stopped]
  senders,         \* per watch: the goroutine that sends twice on its stop channel
  wg,              \* the watches whose senders the shutdown branch waits for
  nilSends,        \* senders of the wait group that send on a nil channel
  dpc,             \* discoverServices: position
  spc,             \* main/shutdown(): position
  sendsLeft        \* shutdown(): sends on shutdownCh still to make

\* discoverNodes, which main() starts when node_watch is global.
VARIABLES
  serviceWatch,    \* config.ServiceWatch
  nodeWatch,       \* config.NodeWatch
  nodeCatalog,     \* Consul catalog: the registered nodes
  nodes,           \* discoverNodes: the keys of its nodes map
  nodeStopCh,      \* discoverNodes: stopCh map, node -> watch
  nodeWg,          \* the watches whose senders its shutdown branch waits for
  npc              \* discoverNodes: position

nodeVars == <<serviceWatch, nodeWatch, nodeCatalog, nodes, nodeStopCh, nodeWg, npc>>

shutdownVars == <<catalog, catalogChanges, services, watchStopCh, monitors, senders, wg,
                  nilSends, dpc, spc, sendsLeft, nodeVars>>

\* One call of a helper function on its own: the function, its arguments, its
\* result so far and the position of the call.
VARIABLES
  fn,    \* the function called, "" when no call is made
  args,  \* its arguments
  ret,   \* its result (while it runs: the value built so far)
  cpc    \* "idle", "call" (running), "return" (returned)

callVars == <<fn, args, ret, cpc>>

\* Every key the engine can write.
KVPaths ==
  {alertPath(o) : o \in AllSubjects} \cup
  {checkStatePath([ServiceTag |-> tag,
                   check |-> [Node |-> k[1], CheckID |-> k[2], ServiceID |-> ServiceIDOf(k)]]) :
     k \in CheckIds, tag \in {"", TaggedSubject.tag}}

\* The KV store as a listing sees it: the leader key exists, with an empty
\* value, while a session holds it.
StorePaths == KVPaths \cup {lockPath(o) : o \in AllSubjects}
Store ==
  [p \in StorePaths |->
     IF p \in KVPaths THEN kv[p]
     ELSE IF p = lockPath(opts) /\ lockHolder # 0 THEN EmptyValue ELSE NoKey]

\* Every path of the store, in the order of a listing.
SortedStorePaths == sortedKeys(StorePaths)

\* client.KV().Keys(kvPath, "", nil): the keys below the prefix that exist,
\* in the order of their strings.  store maps each path to its entry.
listKeys(prefix, store) ==
  LET listed(p) == IsPrefix(prefix, p) /\ store[p].exists
  IN  SelectSeq(SortedStorePaths, listed)

\* The real aggregate status of subject o under health h: the maximum
\* severity of the checks that belong to the subject.
RelevantChecks(o) ==
  IF WatchMode(o) = NodeWatch
  THEN {k \in CheckIds : k[1] = o.node /\ ServiceIDOf(k) = ""}
  ELSE {k \in CheckIds : ServiceIDOf(k) = o.service
                         /\ (o.tag # "" => o.tag \in NodeServiceTags(k[1], o.service))}

Aggregate(o, h) ==
  IF \E k \in RelevantChecks(o) : h[k] = HealthCritical THEN HealthCritical
  ELSE IF \E k \in RelevantChecks(o) : h[k] = HealthWarning THEN HealthWarning
  ELSE HealthPassing

AllDone == \A j \in Inst : \A t \in 1..Len(tasks[j]) : tasks[j][t].pc = "done"

\* The engine has settled: a leader holds the lock, has seen the current
\* health, and no tryAlert is pending anywhere.
Quiescent ==
  \E i \in Inst :
    /\ lockHolder = i /\ acquired[i] /\ lpc[i] = "held" /\ wpc[i] = "top"
    /\ stopSt[i] = "none"
    /\ DOMAIN diffCheckFunc(QueryChecks(opts, health), lastCheckStatus[i], opts, {}) = {}
    /\ \A j \in Inst \ {i} : /\ wpc[j] \in {"top", "returned"}
                              /\ lpc[j] \in {"select", "locking", "exit"}
                              /\ ~acquired[j]
    /\ AllDone

NoFlap == [phase |-> "idle", from |-> "", base |-> 0]

\* No cycle of the watch loop is past its diff.
NoCycle == [updates |-> <<>>, left |-> {}, success |-> TRUE, checks |-> {}, todo |-> <<>>]

\* loadCheckStates is not running.
NoLoad == [keys |-> <<>>, states |-> <<>>]

\* The last_alerted value a tryAlert would read now.
LastAlertedIn(store) ==
  LET got == getAlertState(store[alertPath(opts)])
  IN  IF got.nil THEN HealthPassing ELSE got.alert.LastAlerted
StoredLastAlerted == LastAlertedIn(kv)

\* Bookkeeping at a proposal of daemon i that replaces status old by new: a
\* proposal away from the alerted status A while no tryAlert is pending
\* opens a window; a proposal back to A while the tryAlert of the first
\* proposal has not ended its sleep is the way back.
FlapAfter(i, old, new) ==
  IF /\ flap.phase = "first" /\ new = flap.from /\ Len(emitted) = flap.base
     /\ tasks[i] # <<>>
     /\ tasks[i][Len(tasks[i])].pc \in {"start", "put1", "sleep"}
  THEN [flap EXCEPT !.phase = "back"]
  ELSE IF AllDone /\ StoredLastAlerted = old
  THEN [phase |-> "first", from |-> old, base |-> Len(emitted)]
  ELSE NoFlap

\* The flip is complete once both proposals have stored their update index
\* and sleep at the same time: both changes then lie inside the window of
\* the first.
FlapStored(tk) ==
  IF /\ flap.phase = "back" /\ Len(emitted) = flap.base /\ Len(tk) >= 2
     /\ tk[Len(tk)].pc = "sleep" /\ tk[Len(tk) - 1].pc = "sleep"
  THEN [flap EXCEPT !.phase = "flipped"]
  ELSE flap

\* The state when the watches of the daemons start for one of the subjects.
EngineInitFor(subjects) ==
  /\ opts \in subjects
  /\ health \in [CheckIds -> Statuses]
  /\ \A k \in CheckIds \ VisibleChecks(opts) : health[k] = HealthPassing
  /\ kv = [p \in KVPaths |-> NoKey]
  /\ lockHolder = 0
  /\ lpc = [i \in Inst |-> "select"]
  /\ wpc = [i \in Inst |-> "top"]
  /\ acquired = [i \in Inst |-> FALSE]
  /\ isHeld = [i \in Inst |-> FALSE]
  /\ intClosed = [i \in Inst |-> FALSE]
  /\ stopCh = [i \in Inst |-> FALSE]
  /\ lockCh = [i \in Inst |-> FALSE]
  /\ stopSt = [i \in Inst |-> "none"]
  /\ lastCheckStatus = [i \in Inst |-> <<>>]
  /\ lastAlertStatus = [i \in Inst |-> HealthPassing]
  /\ cycle = [i \in Inst |-> NoCycle]
  /\ loading = [i \in Inst |-> NoLoad]
  /\ tasks = [i \in Inst |-> <<>>]
  /\ alertLock = [i \in Inst |-> 0]
  /\ emitted = <<>>
  /\ expected = IF Aggregate(opts, health) # HealthPassing
                THEN <<Aggregate(opts, health)>> ELSE <<>>
  /\ held = TRUE
  /\ flap = NoFlap
  /\ changes = 0
  /\ losses = 0
  /\ stops = 0
  /\ wlog = {}

\* The watches start for a node or a service; the checks of the node that
\* belong to a service pass at that time.
EngineInit ==
  /\ EngineInitFor(Subjects)
  /\ \A k \in CheckIds \ RelevantChecks(opts) : health[k] = HealthPassing

\* ---- history bookkeeping shared by the actions ----
LogWrite(i, kind) == wlog' = wlog \cup {[inst |-> i, key |-> kind, leader |-> lockHolder = i]}

\* ---- LockHelper.start ----
\* select { case <-l.stopCh: shutdown = true; default: ... l.lock.Lock(l.lockCh) }
LockSelect(i) ==
  /\ lpc[i] = "select"
  /\ IF stopCh[i]
     THEN /\ stopCh' = [stopCh EXCEPT ![i] = FALSE]
          /\ lpc' = [lpc EXCEPT ![i] = "exit"]
     ELSE /\ lpc' = [lpc EXCEPT ![i] = "locking"]
          /\ UNCHANGED stopCh
  /\ UNCHANGED <<opts, health, kv, lockHolder, wpc, acquired, isHeld, intClosed, lockCh,
                 stopSt, lastCheckStatus, lastAlertStatus, tasks, alertLock, emitted,
                 expected, held, flap, changes, losses, stops, wlog>>
  /\ UNCHANGED <<cycle, loading, shutdownVars, callVars>>

\* l.lock.Lock(l.lockCh) is granted the leader key: intChan != nil
LockAcquire(i) ==
  /\ lpc[i] = "locking"
  /\ ~lockCh[i]
  /\ lockHolder = 0
  /\ lockHolder' = i
  /\ isHeld' = [isHeld EXCEPT ![i] = TRUE]
  /\ intClosed' = [intClosed EXCEPT ![i] = FALSE]
  /\ lpc' = [lpc EXCEPT ![i] = "callback"]
  /\ UNCHANGED <<opts, health, kv, wpc, acquired, stopCh, lockCh, stopSt, lastCheckStatus,
                 lastAlertStatus, tasks, alertLock, emitted, expected, held, flap, changes,
                 losses, stops, wlog>>
  /\ UNCHANGED <<cycle, loading, shutdownVars, callVars>>

\* l.lock.Lock(l.lockCh) is interrupted through lockCh: intChan == nil, then
\* time.Sleep(lockWaitTime) and the next round of the loop
LockInterrupted(i) ==
  /\ lpc[i] = "locking"
  /\ lockCh[i]
  /\ lockCh' = [lockCh EXCEPT ![i] = FALSE]
  /\ lpc' = [lpc EXCEPT ![i] = "select"]
  /\ UNCHANGED <<opts, health, kv, lockHolder, wpc, acquired, isHeld, intClosed, stopCh,
                 stopSt, lastCheckStatus, lastAlertStatus, tasks, alertLock, emitted,
                 expected, held, flap, changes, losses, stops, wlog>>
  /\ UNCHANGED <<cycle, loading, shutdownVars, callVars>>

\* for checkName, checkState := range storedCheckStates
\*   { lastCheckStatus[checkName] = checkState.Status }
loadCheckStates(last, storedCheckStates) ==
  [n \in DOMAIN last \cup DOMAIN storedCheckStates |->
     IF n \in DOMAIN storedCheckStates THEN storedCheckStates[n] ELSE last[n]]

\* The position of the start goroutine once getCheckStates has returned
\* states: the range of loadCheckStates over them, or, the range being
\* empty, the return of the callback.
AfterLoad(states) == IF DOMAIN states = {} THEN "setacq" ELSE "apply"

\* l.callback() begins: getCheckStates lists the keys below keyPath
LockCallbackKeys(i) ==
  /\ lpc[i] = "callback"
  /\ LET keys == listKeys(keyPath(opts), Store)
     IN  /\ loading' = [loading EXCEPT ![i] = [keys |-> keys, states |-> <<>>]]
         /\ lpc' = [lpc EXCEPT ![i] = IF keys = <<>> THEN AfterLoad(<<>>) ELSE "loading"]
  /\ UNCHANGED <<opts, health, kv, lockHolder, wpc, acquired, isHeld, intClosed, stopCh,
                 lockCh, stopSt, lastCheckStatus, lastAlertStatus, tasks, alertLock, emitted,
                 expected, held, flap, changes, losses, stops, wlog>>
  /\ UNCHANGED <<cycle, shutdownVars, callVars>>

\* client.KV().Keys returns an error: getCheckStates returns the empty map
LockCallbackKeysFailed(i) ==
  /\ lpc[i] = "callback"
  /\ loading' = [loading EXCEPT ![i] = NoLoad]
  /\ lpc' = [lpc EXCEPT ![i] = AfterLoad(<<>>)]
  /\ UNCHANGED <<opts, health, kv, lockHolder, wpc, acquired, isHeld, intClosed, stopCh,
                 lockCh, stopSt, lastCheckStatus, lastAlertStatus, tasks, alertLock, emitted,
                 expected, held, flap, changes, losses, stops, wlog>>
  /\ UNCHANGED <<cycle, shutdownVars, callVars>>

\* getCheckState of the next listed key: client.KV().Get and the decoding.
\* path is the key, entry the value the Get returns and got the result of
\* getCheckState.  A value that does not parse ends the loop with the map
\* filled so far.
LockCallbackGet(i) ==
  /\ lpc[i] = "loading"
  /\ \E path \in {Head(loading[i].keys)} :
       \E entry \in {Store[path]} : \E got \in {getCheckState(entry)} :
         IF got.err
         THEN /\ loading' = [loading EXCEPT ![i].keys = <<>>]
              /\ lpc' = [lpc EXCEPT ![i] = AfterLoad(loading[i].states)]
         ELSE \E states \in {checkStatesAfter(loading[i].states, path, got)} :
                /\ loading' = [loading EXCEPT ![i] = [keys |-> Tail(loading[i].keys),
                                                      states |-> states]]
                /\ lpc' = [lpc EXCEPT ![i] = IF Len(loading[i].keys) = 1
                                             THEN AfterLoad(states) ELSE "loading"]
  /\ UNCHANGED <<opts, health, kv, lockHolder, wpc, acquired, isHeld, intClosed, stopCh,
                 lockCh, stopSt, lastCheckStatus, lastAlertStatus, tasks, alertLock, emitted,
                 expected, held, flap, changes, losses, stops, wlog>>
  /\ UNCHANGED <<cycle, shutdownVars, callVars>>

\* client.KV().Get of the next listed key returns an error: the loop ends
\* with the map filled so far.
LockCallbackGetFailed(i) ==
  /\ lpc[i] = "loading"
  /\ loading' = [loading EXCEPT ![i].keys = <<>>]
  /\ lpc' = [lpc EXCEPT ![i] = AfterLoad(loading[i].states)]
  /\ UNCHANGED <<opts, health, kv, lockHolder, wpc, acquired, isHeld, intClosed, stopCh,
                 lockCh, stopSt, lastCheckStatus, lastAlertStatus, tasks, alertLock, emitted,
                 expected, held, flap, changes, losses, stops, wlog>>
  /\ UNCHANGED <<cycle, shutdownVars, callVars>>

\* The states loadCheckStates has still to copy, once the range has visited
\* the entry n.
StatesLeft(states, n) ==
  IF DOMAIN states = {n} THEN <<>> ELSE [x \in DOMAIN states \ {n} |-> states[x]]

\* One round of the range of loadCheckStates over the states it got: the
\* entry n, one of those the range has not yet visited, is copied into
\* lastCheckStatus.  After the last entry l.callback() returns.
LockCallbackApply(i, n) ==
  /\ lpc[i] = "apply"
  /\ n \in DOMAIN loading[i].states
  /\ lastCheckStatus' = [lastCheckStatus EXCEPT ![i] =
                           loadCheckStates(@, [x \in {n} |-> loading[i].states[x]])]
  /\ loading' = [loading EXCEPT ![i].states = StatesLeft(@, n)]
  /\ lpc' = [lpc EXCEPT ![i] = AfterLoad(StatesLeft(loading[i].states, n))]
  /\ UNCHANGED <<opts, health, kv, lockHolder, wpc, acquired, isHeld, intClosed, stopCh,
                 lockCh, stopSt, lastAlertStatus, tasks, alertLock, emitted, expected,
                 held, flap, changes, losses, stops, wlog>>
  /\ UNCHANGED <<cycle, shutdownVars, callVars>>

\* l.acquired = true; then block in <-intChan
LockSetAcquired(i) ==
  /\ lpc[i] = "setacq"
  /\ acquired' = [acquired EXCEPT ![i] = TRUE]
  /\ lpc' = [lpc EXCEPT ![i] = "held"]
  /\ UNCHANGED <<opts, health, kv, lockHolder, wpc, isHeld, intClosed, stopCh, lockCh,
                 stopSt, lastCheckStatus, lastAlertStatus, tasks, alertLock, emitted,
                 expected, held, flap, changes, losses, stops, wlog>>
  /\ UNCHANGED <<cycle, loading, shutdownVars, callVars>>

\* Faulty variant: the key is not released.
lockUnlockSkipped(i) == lockHolder
\* l.lock.Unlock(): the holder of the key after the call (0: the key is free);
\* a lock that is not held stays as it is (ErrLockNotHeld).
lockUnlock(i) == IF isHeld[i] /\ lockHolder = i THEN 0 ELSE lockHolder

\* <-intChan returns: l.acquired = false; l.lock.Unlock(); l.lock.Destroy()
LockLost(i) ==
  /\ lpc[i] = "held"
  /\ intClosed[i]
  /\ acquired' = [acquired EXCEPT ![i] = FALSE]
  /\ isHeld' = [isHeld EXCEPT ![i] = FALSE]
  /\ lockHolder' = lockUnlock(i)
  /\ lpc' = [lpc EXCEPT ![i] = "select"]
  /\ UNCHANGED <<opts, health, kv, wpc, intClosed, stopCh, lockCh, stopSt, lastCheckStatus,
                 lastAlertStatus, tasks, alertLock, emitted, expected, held, flap, changes,
                 losses, stops, wlog>>
  /\ UNCHANGED <<cycle, loading, shutdownVars, callVars>>

\* Consul invalidates the session of the holder: the key is released and the
\* holder's monitor goroutine closes intChan.
SessionLost(i) ==
  /\ lockHolder = i
  /\ losses + stops < MaxDisruptions
  /\ lockHolder' = 0
  /\ intClosed' = [intClosed EXCEPT ![i] = TRUE]
  /\ losses' = losses + 1
  /\ UNCHANGED <<opts, health, kv, lpc, wpc, acquired, isHeld, stopCh, lockCh, stopSt,
                 lastCheckStatus, lastAlertStatus, tasks, alertLock, emitted, expected,
                 held, flap, changes, stops, wlog>>
  /\ UNCHANGED <<cycle, loading, shutdownVars, callVars>>

\* ---- watch ----
\* case <-opts.stopCh: lock.stop() begins: l.stopCh <- struct{}{}; l.lockCh <- struct{}{}
WatchStop(i) ==
  /\ wpc[i] = "top"
  /\ stopSt[i] = "send1"
  /\ stopSt' = [stopSt EXCEPT ![i] = "send2"]
  /\ stopCh' = [stopCh EXCEPT ![i] = TRUE]
  /\ lockCh' = [lockCh EXCEPT ![i] = TRUE]
  /\ wpc' = [wpc EXCEPT ![i] = "unlock"]
  /\ UNCHANGED <<opts, health, kv, lockHolder, lpc, acquired, isHeld, intClosed,
                 lastCheckStatus, lastAlertStatus, tasks, alertLock, emitted, expected,
                 held, flap, changes, losses, stops, wlog>>
  /\ UNCHANGED <<cycle, loading, shutdownVars, callVars>>

\* lock.stop(): l.lock.Unlock(); l.lock.Destroy().  api.Lock serialises
\* Unlock with a Lock call in progress.
WatchStopUnlock(i) ==
  /\ wpc[i] = "unlock"
  /\ lpc[i] # "locking"
  /\ isHeld' = [isHeld EXCEPT ![i] = FALSE]
  /\ lockHolder' = lockUnlock(i)
  /\ intClosed' = [intClosed EXCEPT ![i] = @ \/ (isHeld[i] /\ lockHolder = i)]
  /\ wpc' = [wpc EXCEPT ![i] = "clear"]
  /\ UNCHANGED <<opts, health, kv, lpc, acquired, stopCh, lockCh, stopSt, lastCheckStatus,
                 lastAlertStatus, tasks, alertLock, emitted, expected, held, flap, changes,
                 losses, stops, wlog>>
  /\ UNCHANGED <<cycle, loading, shutdownVars, callVars>>

\* lock.stop(): l.acquired = false
WatchStopClear(i) ==
  /\ wpc[i] = "clear"
  /\ acquired' = [acquired EXCEPT ![i] = FALSE]
  /\ wpc' = [wpc EXCEPT ![i] = "ack"]
  /\ UNCHANGED <<opts, health, kv, lockHolder, lpc, isHeld, intClosed, stopCh, lockCh,
                 stopSt, lastCheckStatus, lastAlertStatus, tasks, alertLock, emitted,
                 expected, held, flap, changes, losses, stops, wlog>>
  /\ UNCHANGED <<cycle, loading, shutdownVars, callVars>>

\* <-opts.stopCh (the second receive); return
WatchStopAck(i) ==
  /\ wpc[i] = "ack"
  /\ stopSt[i] = "send2"
  /\ stopSt' = [stopSt EXCEPT ![i] = "sent"]
  /\ wpc' = [wpc EXCEPT ![i] = "returned"]
  /\ UNCHANGED <<opts, health, kv, lockHolder, lpc, acquired, isHeld, intClosed, stopCh,
                 lockCh, lastCheckStatus, lastAlertStatus, tasks, alertLock, emitted,
                 expected, held, flap, changes, losses, stops, wlog>>
  /\ UNCHANGED <<cycle, loading, shutdownVars, callVars>>

\* if !lock.acquired { time.Sleep(1 * time.Second); continue }
mayQuery(i) == acquired[i]

\* No stop is pending and the lock is held: the blocking health query is issued.
WatchBegin(i) ==
  /\ wpc[i] = "top"
  /\ stopSt[i] # "send1"
  /\ mayQuery(i)
  /\ wpc' = [wpc EXCEPT ![i] = "query"]
  /\ UNCHANGED <<opts, health, kv, lockHolder, lpc, acquired, isHeld, intClosed, stopCh,
                 lockCh, stopSt, lastCheckStatus, lastAlertStatus, tasks, alertLock,
                 emitted, expected, held, flap, changes, losses, stops, wlog>>
  /\ UNCHANGED <<cycle, loading, shutdownVars, callVars>>

\* updateCheckState for every update: the KV store after the writes
updateCheckStates(store, updates) ==
  [p \in DOMAIN store |->
     IF \E h \in DOMAIN updates : checkStatePath(updates[h]) = p
     THEN LET h == CHOOSE x \in DOMAIN updates : checkStatePath(updates[x]) = p
          IN  marshalCheckState([Status |-> updates[h].check.Status])
     ELSE store[p]]

\* for checkHash, update := range updates { lastCheckStatus[checkHash] = update.Status }
commitUpdates(last, updates) ==
  [n \in DOMAIN last \cup DOMAIN updates |->
     IF n \in DOMAIN updates THEN updates[n].check.Status ELSE last[n]]

\* go tryAlert(alertPath, alert, opts): update holds Status, Message and
\* Details of alert
NewTask(update) ==
  [pc |-> "start", status |-> update.Status, message |-> update.Message,
   details |-> update.Details, idx |-> 0, alert |-> NilAlert]

\* The parameter update of a tryAlert.
UpdateOf(task) ==
  [Status |-> task.status, Message |-> task.message, Details |-> task.details]

\* Faulty variant: the updates are committed although a write failed.
abortedCycleCommitted(last, updates) ==
  [n \in DOMAIN last \cup DOMAIN updates |->
     IF n \in DOMAIN updates THEN updates[n].check.Status ELSE last[n]]

\* if success { ... } is skipped: lastCheckStatus after a cycle with a failed write
abortedCycle(last, updates) == last

\* Faulty variant: the aggregate is compared after every query.
hasUpdatesAlways(updates) == TRUE

\* if len(updates) > 0
hasUpdates(updates) == DOMAIN updates # {}

\* The watch after a stretch of the diff of its cycle: at the next request
\* to the catalog; or, the diff done, at the top of the loop when there are
\* no updates, and otherwise at the writes of the updates.
AfterDiff(i, checks, scan) ==
  IF scan.todo # <<>>
  THEN /\ wpc' = [wpc EXCEPT ![i] = "lookup"]
       /\ cycle' = [cycle EXCEPT ![i] = [updates |-> scan.updates, left |-> {},
                                         success |-> TRUE, checks |-> checks,
                                         todo |-> scan.todo]]
  ELSE IF ~hasUpdates(scan.updates)
  THEN /\ wpc' = [wpc EXCEPT ![i] = "top"]
       /\ cycle' = [cycle EXCEPT ![i] = NoCycle]
  ELSE /\ wpc' = [wpc EXCEPT ![i] = IF DOMAIN scan.updates = {} THEN "health" ELSE "update"]
       /\ cycle' = [cycle EXCEPT ![i] = [updates |-> scan.updates,
                                         left |-> DOMAIN scan.updates,
                                         success |-> TRUE, checks |-> checks,
                                         todo |-> <<>>]]

\* The blocking query returns the current checks, and diffCheckFunc runs up
\* to its first request to the catalog or to its end: checks is the response
\* and scan the diff so far.
WatchQuery(i) ==
  /\ wpc[i] = "query"
  /\ \E checks \in {QueryChecks(opts, health)} :
       \E scan \in {diffScan(checks, lastCheckStatus[i], opts)} :
         AfterDiff(i, checks, scan)
  /\ UNCHANGED <<opts, health, kv, lockHolder, lpc, acquired, isHeld, intClosed, stopCh, lockCh,
                 stopSt, lastCheckStatus, lastAlertStatus, tasks, alertLock, emitted, expected,
                 held, flap, changes, losses, stops, wlog>>
  /\ UNCHANGED <<loading, shutdownVars, callVars>>

\* opts.client.Catalog().Node(check.Node) returns the node of the check at
\* the head of todo: the check is an update if the node's registration of
\* the service carries the tag, and the loop of the diff goes on.
WatchLookup(i) ==
  /\ wpc[i] = "lookup"
  /\ LET check == Head(cycle[i].todo)
         updates == IF opts.tag \in NodeServiceTags(check.Node, opts.service)
                    THEN withUpdate(cycle[i].updates, check, opts)
                    ELSE cycle[i].updates
     IN  AfterDiff(i, cycle[i].checks,
                   diffServiceScan(Tail(cycle[i].todo), updates, lastCheckStatus[i], opts))
  /\ UNCHANGED <<opts, health, kv, lockHolder, lpc, acquired, isHeld, intClosed, stopCh, lockCh,
                 stopSt, lastCheckStatus, lastAlertStatus, tasks, alertLock, emitted, expected,
                 held, flap, changes, losses, stops, wlog>>
  /\ UNCHANGED <<loading, shutdownVars, callVars>>

\* The request returns an error: the check is passed over (continue), and
\* the loop of the diff goes on.
WatchLookupFailed(i) ==
  /\ wpc[i] = "lookup"
  /\ AfterDiff(i, cycle[i].checks,
               diffServiceScan(Tail(cycle[i].todo), cycle[i].updates, lastCheckStatus[i], opts))
  /\ UNCHANGED <<opts, health, kv, lockHolder, lpc, acquired, isHeld, intClosed, stopCh, lockCh,
                 stopSt, lastCheckStatus, lastAlertStatus, tasks, alertLock, emitted, expected,
                 held, flap, changes, losses, stops, wlog>>
  /\ UNCHANGED <<loading, shutdownVars, callVars>>

\* The blocking query returns an error: time.Sleep(errorWaitTime); continue
WatchQueryError(i) ==
  /\ wpc[i] = "query"
  /\ wpc' = [wpc EXCEPT ![i] = "top"]
  /\ UNCHANGED <<opts, health, kv, lockHolder, lpc, acquired, isHeld, intClosed, stopCh, lockCh,
                 stopSt, lastCheckStatus, lastAlertStatus, tasks, alertLock, emitted, expected,
                 held, flap, changes, losses, stops, wlog>>
  /\ UNCHANGED <<cycle, loading, shutdownVars, callVars>>

\* The position of the watch after one more updateCheckState call.
AfterUpdate(left) == IF left = {} THEN "commit" ELSE "update"

\* The entries the range in progress has not yet visited: after the last
\* round of the range that writes the updates, all entries of the range
\* that commits them.
RangeLeft(updates, left) == IF left = {} THEN DOMAIN updates ELSE left

\* updateCheckState(update, client) for the update of check h, one of those
\* the range over updates has not yet visited: the Put succeeds.
WatchUpdate(i, h) ==
  /\ wpc[i] = "update"
  /\ h \in cycle[i].left
  /\ kv' = updateCheckStates(kv, [x \in {h} |-> cycle[i].updates[x]])
  /\ LogWrite(i, "check")
  /\ cycle' = [cycle EXCEPT ![i].left = RangeLeft(cycle[i].updates, @ \ {h})]
  /\ wpc' = [wpc EXCEPT ![i] = AfterUpdate(cycle[i].left \ {h})]
  /\ UNCHANGED <<opts, health, lockHolder, lpc, acquired, isHeld, intClosed, stopCh, lockCh,
                 stopSt, lastCheckStatus, lastAlertStatus, tasks, alertLock, emitted, expected,
                 held, flap, changes, losses, stops>>
  /\ UNCHANGED <<loading, shutdownVars, callVars>>

\* updateCheckState(update, client) returns false: success = false, and the
\* range goes on with the updates that are left.
WatchUpdateFailed(i, h) ==
  /\ wpc[i] = "update"
  /\ h \in cycle[i].left
  /\ LogWrite(i, "failed")
  /\ cycle' = [cycle EXCEPT ![i].left = RangeLeft(cycle[i].updates, @ \ {h}),
                            ![i].success = FALSE]
  /\ wpc' = [wpc EXCEPT ![i] = AfterUpdate(cycle[i].left \ {h})]
  /\ UNCHANGED <<opts, health, kv, lockHolder, lpc, acquired, isHeld, intClosed, stopCh, lockCh,
                 stopSt, lastCheckStatus, lastAlertStatus, tasks, alertLock, emitted, expected,
                 held, flap, changes, losses, stops>>
  /\ UNCHANGED <<loading, shutdownVars, callVars>>

\* if success is false: nothing is committed, and the next round of the loop
WatchCommitSkipped(i) ==
  /\ wpc[i] = "commit"
  /\ ~cycle[i].success
  /\ wpc' = [wpc EXCEPT ![i] = "top"]
  /\ cycle' = [cycle EXCEPT ![i] = NoCycle]
  /\ lastCheckStatus' = [lastCheckStatus EXCEPT ![i] = abortedCycle(@, cycle[i].updates)]
  /\ UNCHANGED <<opts, health, kv, lockHolder, lpc, acquired, isHeld, intClosed, stopCh, lockCh,
                 stopSt, lastAlertStatus, tasks, alertLock, emitted, expected, held, flap,
                 changes, losses, stops, wlog>>
  /\ UNCHANGED <<loading, shutdownVars, callVars>>

\* if success: one round of the range that commits the updates, for the
\* update of check h: lastCheckStatus[checkHash] = update.Status
WatchCommit(i, h) ==
  /\ wpc[i] = "commit"
  /\ cycle[i].success
  /\ h \in cycle[i].left
  /\ lastCheckStatus' = [lastCheckStatus EXCEPT ![i] =
                           commitUpdates(@, [x \in {h} |-> cycle[i].updates[x]])]
  /\ cycle' = [cycle EXCEPT ![i].left = @ \ {h}]
  /\ wpc' = [wpc EXCEPT ![i] = IF cycle[i].left = {h} THEN "health" ELSE "commit"]
  /\ UNCHANGED <<opts, health, kv, lockHolder, lpc, acquired, isHeld, intClosed, stopCh, lockCh,
                 stopSt, lastAlertStatus, tasks, alertLock, emitted, expected, held, flap,
                 changes, losses, stops, wlog>>
  /\ UNCHANGED <<loading, shutdownVars, callVars>>

\* newStatus := computeHealth(lastCheckStatus); on a change of the aggregate
\* go tryAlert(...) with the message and the details of the cycle's checks;
\* then the next round of the loop
WatchComputeHealth(i) ==
  /\ wpc[i] = "health"
  /\ wpc' = [wpc EXCEPT ![i] = "top"]
  /\ cycle' = [cycle EXCEPT ![i] = NoCycle]
  /\ LET newStatus == computeHealth(lastCheckStatus[i])
     IN  IF lastAlertStatus[i] # newStatus
         THEN /\ lastAlertStatus' = [lastAlertStatus EXCEPT ![i] = newStatus]
              /\ \E details \in alertDetails(opts, cycle[i].checks) :
                   tasks' = [tasks EXCEPT ![i] =
                               Append(@, NewTask([Status |-> newStatus,
                                                  Message |-> alertMessage(opts, newStatus),
                                                  Details |-> details]))]
              /\ flap' = FlapAfter(i, lastAlertStatus[i], newStatus)
         ELSE UNCHANGED <<lastAlertStatus, tasks, flap>>
  /\ UNCHANGED <<opts, health, kv, lockHolder, lpc, acquired, isHeld, intClosed, stopCh, lockCh,
                 stopSt, lastCheckStatus, alertLock, emitted, expected, held, changes, losses,
                 stops, wlog>>
  /\ UNCHANGED <<loading, shutdownVars, callVars>>

\* ---- tryAlert ----
Finished(task) ==
  [pc |-> "done", status |-> "", message |-> <<>>, details |-> <<>>, idx |-> 0,
   alert |-> NilAlert]

\* alert = &AlertState{Node, Service, Tag, LastAlerted: api.HealthPassing}
seedAlert(o) ==
  [NilAlert EXCEPT !.Node = o.node, !.Service = o.service, !.Tag = o.tag,
                   !.LastAlerted = HealthPassing]

\* The AlertState tryAlert stores before the sleep, getAlertState having
\* returned got.
proposeAlert(got, update, o) ==
  LET alert == IF got.nil THEN seedAlert(o) ELSE got.alert
  IN  [alert EXCEPT !.Status = update.Status, !.Message = update.Message,
                    !.Details = update.Details, !.UpdateIndex = @ + 1]

\* Faulty variant: the error return keeps alertLock.
alertLockKeptOnError(lock, i, t) == [lock EXCEPT ![i] = t]

\* if err != nil { watchOpts.alertLock.Unlock(); return }
alertLockAfterError(lock, i, t) == [lock EXCEPT ![i] = 0]

\* alertLock.Lock(); getAlertState; alert.UpdateIndex++
TryAlertBegin(i, t) ==
  /\ tasks[i][t].pc = "start"
  /\ alertLock[i] = 0
  /\ LET got == getAlertState(kv[alertPath(opts)])
         alert == proposeAlert(got, UpdateOf(tasks[i][t]), opts)
     IN  IF got.err
         THEN /\ tasks' = [tasks EXCEPT ![i][t] = Finished(@)]
              /\ alertLock' = alertLockAfterError(alertLock, i, t)
         ELSE /\ alertLock' = [alertLock EXCEPT ![i] = t]
              /\ tasks' = [tasks EXCEPT ![i][t] =
                             [@ EXCEPT !.pc = "put1", !.idx = alert.UpdateIndex,
                                       !.alert = alert]]
  /\ UNCHANGED <<opts, health, kv, lockHolder, lpc, wpc, acquired, isHeld, intClosed, stopCh,
                 lockCh, stopSt, lastCheckStatus, lastAlertStatus, emitted, expected, held, flap,
                 changes, losses, stops, wlog>>
  /\ UNCHANGED <<cycle, loading, shutdownVars, callVars>>

\* alertLock.Lock(); client.KV().Get returns an error in getAlertState:
\* alertLock.Unlock(); return.  Nothing is stored, tryAlert ends.
TryAlertBeginGetFailed(i, t) ==
  /\ tasks[i][t].pc = "start"
  /\ alertLock[i] = 0
  /\ tasks' = [tasks EXCEPT ![i][t] = Finished(@)]
  /\ alertLock' = alertLockAfterError(alertLock, i, t)
  /\ UNCHANGED <<opts, health, kv, lockHolder, lpc, wpc, acquired, isHeld, intClosed, stopCh,
                 lockCh, stopSt, lastCheckStatus, lastAlertStatus, emitted, expected, held, flap,
                 changes, losses, stops, wlog>>
  /\ UNCHANGED <<cycle, loading, shutdownVars, callVars>>

\* setAlertState; alertLock.Unlock(); time.Sleep(changeThreshold) begins
TryAlertStore(i, t) ==
  /\ tasks[i][t].pc = "put1"
  /\ kv' = [kv EXCEPT ![alertPath(opts)] = marshalAlertState(tasks[i][t].alert)]
  /\ LogWrite(i, "alert")
  /\ alertLock' = [alertLock EXCEPT ![i] = 0]
  /\ tasks' = [tasks EXCEPT ![i][t] = [@ EXCEPT !.pc = "sleep", !.alert = NilAlert]]
  /\ flap' = FlapStored(tasks'[i])
  /\ UNCHANGED <<opts, health, lockHolder, lpc, wpc, acquired, isHeld, intClosed, stopCh,
                 lockCh, stopSt, lastCheckStatus, lastAlertStatus, emitted, expected, held,
                 changes, losses, stops>>
  /\ UNCHANGED <<cycle, loading, shutdownVars, callVars>>

\* if alert.UpdateIndex == updateIndex && update.Status != alert.LastAlerted
shouldAlert(alert, updateIndex, status) ==
  alert.UpdateIndex = updateIndex /\ status # alert.LastAlerted

\* setAlertState returns an error: alertLock.Unlock(); return.  Nothing is
\* stored and tryAlert ends without its sleep.
TryAlertStoreFailed(i, t) ==
  /\ tasks[i][t].pc = "put1"
  /\ LogWrite(i, "failed")
  /\ alertLock' = alertLockAfterError(alertLock, i, t)
  /\ tasks' = [tasks EXCEPT ![i][t] = Finished(@)]
  /\ UNCHANGED <<opts, health, kv, lockHolder, lpc, wpc, acquired, isHeld, intClosed, stopCh,
                 lockCh, stopSt, lastCheckStatus, lastAlertStatus, emitted, expected, held, flap,
                 changes, losses, stops>>
  /\ UNCHANGED <<cycle, loading, shutdownVars, callVars>>

\* Faulty variant: a missing AlertState is taken for a fresh one.
alertDueSeeded(got, updateIndex, status) ==
  IF got.nil THEN status # HealthPassing ELSE shouldAlert(got.alert, updateIndex, status)

\* if alert == nil { return }, then the condition of the alert
alertDue(got, updateIndex, status) ==
  ~got.nil /\ shouldAlert(got.alert, updateIndex, status)

\* alert.LastAlerted = update.Status
lastAlertedRecorded(alert, status) == [alert EXCEPT !.LastAlerted = status]

\* The sleep is over: alertLock.Lock(); getAlertState; the alert is due, and
\* the handlers are called next, or tryAlert returns (deferred Unlock).
TryAlertWake(i, t) ==
  /\ tasks[i][t].pc = "sleep"
  /\ alertLock[i] = 0
  /\ LET got == getAlertState(kv[alertPath(opts)])
     IN  IF alertDue(got, tasks[i][t].idx, tasks[i][t].status)
         THEN /\ alertLock' = [alertLock EXCEPT ![i] = t]
              /\ tasks' = [tasks EXCEPT ![i][t] = [@ EXCEPT !.pc = "alert", !.alert = got.alert]]
         ELSE /\ tasks' = [tasks EXCEPT ![i][t] = Finished(@)]
              /\ UNCHANGED alertLock
  /\ UNCHANGED <<opts, health, kv, lockHolder, lpc, wpc, acquired, isHeld, intClosed, stopCh,
                 lockCh, stopSt, lastCheckStatus, lastAlertStatus, emitted, expected, held, flap,
                 changes, losses, stops, wlog>>
  /\ UNCHANGED <<cycle, loading, shutdownVars, callVars>>

\* The sleep is over: alertLock.Lock(); client.KV().Get returns an error in
\* getAlertState: return (deferred Unlock).  No handler is called and
\* nothing is stored.
TryAlertWakeGetFailed(i, t) ==
  /\ tasks[i][t].pc = "sleep"
  /\ alertLock[i] = 0
  /\ tasks' = [tasks EXCEPT ![i][t] = Finished(@)]
  /\ UNCHANGED <<opts, health, kv, lockHolder, lpc, wpc, acquired, isHeld, intClosed, stopCh,
                 lockCh, stopSt, lastCheckStatus, lastAlertStatus, alertLock, emitted, expected,
                 held, flap, changes, losses, stops, wlog>>
  /\ UNCHANGED <<cycle, loading, shutdownVars, callVars>>

\* for _, handler := range serviceHandlers(service) { handler.Alert(...) };
\* alert.LastAlerted = update.Status
TryAlertHandlers(i, t) ==
  /\ tasks[i][t].pc = "alert"
  /\ emitted' = Append(emitted, [inst |-> i, status |-> tasks[i][t].alert.Status])
  /\ tasks' = [tasks EXCEPT ![i][t] =
                 [@ EXCEPT !.pc = "put2",
                           !.alert = lastAlertedRecorded(@, tasks[i][t].status)]]
  /\ UNCHANGED <<opts, health, kv, lockHolder, lpc, wpc, acquired, isHeld, intClosed, stopCh,
                 lockCh, stopSt, lastCheckStatus, lastAlertStatus, alertLock, expected, held,
                 flap, changes, losses, stops, wlog>>
  /\ UNCHANGED <<cycle, loading, shutdownVars, callVars>>

\* As TryAlertHandlers, with a handler whose delivery to its endpoint
\* fails: Alert() returns nothing, tryAlert goes on.
TryAlertHandlersSinkFailed(i, t) ==
  /\ tasks[i][t].pc = "alert"
  /\ tasks' = [tasks EXCEPT ![i][t] =
                 [@ EXCEPT !.pc = "put2",
                           !.alert = lastAlertedRecorded(@, tasks[i][t].status)]]
  /\ UNCHANGED <<opts, health, kv, lockHolder, lpc, wpc, acquired, isHeld, intClosed, stopCh,
                 lockCh, stopSt, lastCheckStatus, lastAlertStatus, alertLock, emitted, expected,
                 held, flap, changes, losses, stops, wlog>>
  /\ UNCHANGED <<cycle, loading, shutdownVars, callVars>>

\* setAlertState; deferred alertLock.Unlock()
TryAlertRecord(i, t) ==
  /\ tasks[i][t].pc = "put2"
  /\ kv' = [kv EXCEPT ![alertPath(opts)] = marshalAlertState(tasks[i][t].alert)]
  /\ LogWrite(i, "alert")
  /\ alertLock' = [alertLock EXCEPT ![i] = 0]
  /\ tasks' = [tasks EXCEPT ![i][t] = Finished(@)]
  /\ UNCHANGED <<opts, health, lockHolder, lpc, wpc, acquired, isHeld, intClosed, stopCh,
                 lockCh, stopSt, lastCheckStatus, lastAlertStatus, emitted, expected, held, flap,
                 changes, losses, stops>>
  /\ UNCHANGED <<cycle, loading, shutdownVars, callVars>>

\* setAlertState returns an error after the handlers were called: the error
\* is logged, last_alerted is not stored; deferred alertLock.Unlock()
TryAlertRecordFailed(i, t) ==
  /\ tasks[i][t].pc = "put2"
  /\ LogWrite(i, "failed")
  /\ alertLock' = [alertLock EXCEPT ![i] = 0]
  /\ tasks' = [tasks EXCEPT ![i][t] = Finished(@)]
  /\ UNCHANGED <<opts, health, kv, lockHolder, lpc, wpc, acquired, isHeld, intClosed, stopCh,
                 lockCh, stopSt, lastCheckStatus, lastAlertStatus, emitted, expected, held, flap,
                 changes, losses, stops>>
  /\ UNCHANGED <<cycle, loading, shutdownVars, callVars>>

\* ---- the unsynchronised map ----
\* The diff of a cycle looks up lastStatus[checkHash] for some check.
DiffReadsMap ==
  \E c \in QueryChecks(opts, health) : WatchMode(opts) = NodeWatch => c.ServiceID = ""

\* The next step of the watch goroutine of daemon i reads or writes the map
\* lastCheckStatus: the diff after the query, a round of the range that
\* commits the updates, or computeHealth.
WatchAtMap(i) ==
  \/ wpc[i] = "query" /\ DiffReadsMap
  \/ wpc[i] = "lookup" /\ Len(cycle[i].todo) > 1
  \/ wpc[i] = "commit" /\ cycle[i].success
  \/ wpc[i] = "health"

\* loadCheckStates, run by the LockHelper.start goroutine, writes an entry
\* of the map lastCheckStatus while the watch goroutine, in a cycle that
\* began in the earlier tenure, reads or writes the map: no lock orders the
\* two.  The accesses come about in either order, entry by entry (the steps
\* above), or the Go runtime detects the concurrent map access and ends the
\* process; Consul releases the key when the session is gone.
MapRaceAbort(i) ==
  /\ lpc[i] = "apply"
  /\ WatchAtMap(i)
  /\ losses' = losses + 1
  /\ lockHolder' = IF lockHolder = i THEN 0 ELSE lockHolder
  /\ lpc' = [lpc EXCEPT ![i] = "exit"]
  /\ wpc' = [wpc EXCEPT ![i] = "returned"]
  /\ acquired' = [acquired EXCEPT ![i] = FALSE]
  /\ isHeld' = [isHeld EXCEPT ![i] = FALSE]
  /\ tasks' = [tasks EXCEPT ![i] = [t \in 1..Len(@) |-> Finished(@[t])]]
  /\ alertLock' = [alertLock EXCEPT ![i] = 0]
  /\ cycle' = [cycle EXCEPT ![i] = NoCycle]
  /\ loading' = [loading EXCEPT ![i] = NoLoad]
  /\ UNCHANGED <<opts, health, kv, intClosed, stopCh, lockCh, stopSt, lastCheckStatus,
                 lastAlertStatus, emitted, expected, held, flap, changes, stops, wlog>>
  /\ UNCHANGED <<shutdownVars, callVars>>

\* ---- environment ----
\* The value of the subject's alert key is replaced by one that does not
\* parse.
DamageAlert ==
  /\ kv[alertPath(opts)].exists /\ kv[alertPath(opts)].raw = "json"
  /\ kv' = [kv EXCEPT ![alertPath(opts)] = CorruptValue]
  /\ UNCHANGED <<opts, health, lockHolder, lpc, wpc, acquired, isHeld, intClosed, stopCh,
                 lockCh, stopSt, lastCheckStatus, lastAlertStatus, tasks, alertLock, emitted,
                 expected, held, flap, changes, losses, stops, wlog>>
  /\ UNCHANGED <<cycle, loading, shutdownVars, callVars>>

\* The subject's alert key is deleted from the KV store.
DeleteAlert ==
  /\ kv[alertPath(opts)].exists
  /\ kv' = [kv EXCEPT ![alertPath(opts)] = NoKey]
  /\ UNCHANGED <<opts, health, lockHolder, lpc, wpc, acquired, isHeld, intClosed, stopCh,
                 lockCh, stopSt, lastCheckStatus, lastAlertStatus, tasks, alertLock, emitted,
                 expected, held, flap, changes, losses, stops, wlog>>
  /\ UNCHANGED <<cycle, loading, shutdownVars, callVars>>

\* A check changes its status in Consul.
SetHealth(k, s, limit) ==
  /\ changes < limit
  /\ k \in VisibleChecks(opts)
  /\ health[k] # s
  /\ health' = [health EXCEPT ![k] = s]
  /\ changes' = changes + 1
  /\ LET old == Aggregate(opts, health)
         new == Aggregate(opts, health')
     IN  /\ expected' = IF new # old THEN Append(expected, new) ELSE expected
         /\ held' = (held /\ (new = old \/ Quiescent))
  /\ UNCHANGED <<opts, kv, lockHolder, lpc, wpc, acquired, isHeld, intClosed, stopCh, lockCh,
                 stopSt, lastCheckStatus, lastAlertStatus, tasks, alertLock, emitted, flap,
                 losses, stops, wlog>>
  /\ UNCHANGED <<cycle, loading, shutdownVars, callVars>>

\* A check of the subject is deregistered from Consul: the next health query
\* returns the remaining checks only.
DeregisterCheck(k, limit) == SetHealth(k, Deregistered, limit)

\* Discovery retires the subject or the daemon shuts down: the first of the
\* two sends on the watch's stop channel is offered.
StopMonitor(i) ==
  /\ losses + stops < MaxDisruptions
  /\ stopSt[i] = "none"
  /\ stopSt' = [stopSt EXCEPT ![i] = "send1"]
  /\ stops' = stops + 1
  /\ UNCHANGED <<opts, health, kv, lockHolder, lpc, wpc, acquired, isHeld, intClosed, stopCh,
                 lockCh, lastCheckStatus, lastAlertStatus, tasks, alertLock, emitted, expected,
                 held, flap, changes, losses, wlog>>
  /\ UNCHANGED <<cycle, loading, shutdownVars, callVars>>

\* The process of daemon i ends (os.Exit after shutdown(), or a kill): its
\* goroutines end where they are, the sleeping tryAlerts included, and
\* Consul releases the key when the session is gone.
ProcessExit(i) ==
  /\ losses + stops < MaxDisruptions
  /\ wpc[i] # "returned"
  /\ losses' = losses + 1
  /\ lockHolder' = IF lockHolder = i THEN 0 ELSE lockHolder
  /\ lpc' = [lpc EXCEPT ![i] = "exit"]
  /\ wpc' = [wpc EXCEPT ![i] = "returned"]
  /\ acquired' = [acquired EXCEPT ![i] = FALSE]
  /\ isHeld' = [isHeld EXCEPT ![i] = FALSE]
  /\ tasks' = [tasks EXCEPT ![i] = [t \in 1..Len(@) |-> Finished(@[t])]]
  /\ alertLock' = [alertLock EXCEPT ![i] = 0]
  /\ cycle' = [cycle EXCEPT ![i] = NoCycle]
  /\ loading' = [loading EXCEPT ![i] = NoLoad]
  /\ UNCHANGED <<opts, health, kv, intClosed, stopCh, lockCh, stopSt, lastCheckStatus,
                 lastAlertStatus, emitted, expected, held, flap, changes, stops, wlog>>
  /\ UNCHANGED <<shutdownVars, callVars>>

\* The steps of the daemons' goroutines while no state is stored at the
\* grant of the lock and no request to Consul fails.
DaemonStep ==
  \/ \E i \in Inst : LockSelect(i)
  \/ \E i \in Inst : LockAcquire(i)
  \/ \E i \in Inst : LockCallbackKeys(i)
  \/ \E i \in Inst : LockCallbackGet(i)
  \/ \E i \in Inst : LockSetAcquired(i)
  \/ \E i \in Inst : WatchBegin(i)
  \/ \E i \in Inst : WatchQuery(i)
  \/ \E i \in Inst : \E h \in cycle[i].left : WatchUpdate(i, h)
  \/ \E i \in Inst : \E h \in cycle[i].left : WatchCommit(i, h)
  \/ \E i \in Inst : WatchComputeHealth(i)
  \/ \E i \in Inst : \E t \in 1..Len(tasks[i]) : TryAlertBegin(i, t)
  \/ \E i \in Inst : \E t \in 1..Len(tasks[i]) : TryAlertStore(i, t)
  \/ \E i \in Inst : \E t \in 1..Len(tasks[i]) : TryAlertWake(i, t)
  \/ \E i \in Inst : \E t \in 1..Len(tasks[i]) : TryAlertHandlers(i, t)
  \/ \E i \in Inst : \E t \in 1..Len(tasks[i]) : TryAlertRecord(i, t)

\* The range of loadCheckStates, for a leader that finds stored state.
RehydrateStep ==
  \E i \in Inst : \E n \in DOMAIN loading[i].states : LockCallbackApply(i, n)

\* A tenure ends with the session: the holder's session is invalidated, or
\* its process ends on a detected map race.
LossStep ==
  \/ \E i \in Inst : LockLost(i)
  \/ \E i \in Inst : SessionLost(i)
  \/ \E i \in Inst : MapRaceAbort(i)

\* A tenure ends with the watch: discovery retires the subject, or the
\* daemon shuts down.
RetireStep ==
  \/ \E i \in Inst : LockInterrupted(i)
  \/ \E i \in Inst : LockLost(i)
  \/ \E i \in Inst : WatchStop(i)
  \/ \E i \in Inst : WatchStopUnlock(i)
  \/ \E i \in Inst : WatchStopClear(i)
  \/ \E i \in Inst : WatchStopAck(i)
  \/ \E i \in Inst : StopMonitor(i)

\* One leader throughout: the daemons and the health changes.
StableNext ==
  \/ DaemonStep
  \/ \E k \in CheckIds : \E s \in Statuses : SetHealth(k, s, MaxChanges)

\* Sessions can be lost.  The subject fails once: with a failure from the
\* start, or with a change of a subject that has passed so far.
EngineNext ==
  \/ DaemonStep
  \/ RehydrateStep
  \/ LossStep
  \/ \E k \in CheckIds : \E s \in Statuses :
        expected = <<>> /\ SetHealth(k, s, MaxHandoffChanges)

\* Watches can be stopped while the health changes.
RetireNext ==
  \/ DaemonStep
  \/ RehydrateStep
  \/ RetireStep
  \/ \E k \in CheckIds : \E s \in Statuses : SetHealth(k, s, MaxHandoffChanges)

(***************************************************************************)
(* Part III: discovery and teardown of one daemon                          *)
(*                                                                         *)
(* service_watch is global, and discoverServices asks the catalog for the  *)
(* services, or local, and it asks for the daemon's own node and takes the *)
(* services registered on it.  node_watch is local, and main() starts the  *)
(* watch of the local node on the shared shutdownCh, or global, and main() *)
(* starts discoverNodes.                                                   *)
(***************************************************************************)
MaxCatalogChanges == 2

\* shutdown(): for i := 0; i < 4; i++
ShutdownSends == 4

ServiceNames == {"web", "db"}
LocalNode == "node"

\* config.go: the watch modes
LocalMode == "local"
GlobalMode == "global"

\* The nodes the catalog can hold: the daemon's own and one other.
NodeNames == {LocalNode, "peer"}

\* The tags a registered service carries in the catalog.
CatalogTags(service) == IF service = "db" THEN {"a", "ig"} ELSE {}

\* config.serviceConfig(service): distinct_tags and ignored_tags of the
\* service's block; a service without a block has neither.
DistinctTags(service) == service = "db"
IgnoredTags(service) == IF service = "db" THEN {"ig"} ELSE {}

\* go watch(opts): a fresh watch goroutine with its LockHelper
NewMonitor(key) == [key |-> key, pc |-> "top", acquired |-> FALSE, stopped |-> FALSE]

\* The nodes of the catalog matter to the daemon: discoverNodes lists them,
\* and discoverServices in local mode asks for the daemon's own node.
NodesObserved == nodeWatch = GlobalMode \/ serviceWatch = LocalMode

\* main() has started the goroutines; the catalog holds the daemon's own
\* node and some of the services.
ShutdownInit ==
  /\ catalog \in SUBSET ServiceNames
  /\ catalogChanges = 0
  /\ services = {}
  /\ watchStopCh = <<>>
  /\ serviceWatch \in {LocalMode, GlobalMode}
  /\ nodeWatch \in {LocalMode, GlobalMode}
  /\ nodeCatalog = {LocalNode}
  /\ nodes = {}
  /\ nodeStopCh = <<>>
  /\ nodeWg = {}
  /\ npc = IF nodeWatch = GlobalMode THEN "loop" ELSE "off"
  /\ monitors = IF nodeWatch = GlobalMode THEN <<>> ELSE <<NewMonitor(LocalNode)>>
  /\ senders = IF nodeWatch = GlobalMode THEN <<>> ELSE <<"shared">>
  /\ wg = {}
  /\ nilSends = 0
  /\ dpc = "loop"
  /\ spc = "running"
  /\ sendsLeft = 0

\* The daemon's goroutines run until os.Exit or a panic.
Alive == spc \notin {"exited", "panicked"}

\* shutdown() is blocked in a send on shutdownCh.
ShutdownReady == spc = "sending" /\ sendsLeft > 0

\* A sender is blocked in a send on the stop channel of watch m.
SenderReady(m) ==
  IF senders[m] = "shared" THEN ShutdownReady ELSE senders[m] \in {"send1", "send2"}

\* The receive that completes the pending send on the stop channel of watch m.
ReceiveStop(m) ==
  IF senders[m] = "shared"
  THEN sendsLeft' = sendsLeft - 1 /\ UNCHANGED senders
  ELSE /\ senders' = [senders EXCEPT ![m] = IF @ = "send1" THEN "send2" ELSE "done"]
       /\ UNCHANGED sendsLeft

\* ---- environment: the catalog ----
Register(service) ==
  /\ catalogChanges < MaxCatalogChanges
  /\ service \notin catalog
  /\ catalog' = catalog \cup {service}
  /\ catalogChanges' = catalogChanges + 1
  /\ UNCHANGED <<services, watchStopCh, monitors, senders, wg, nilSends, dpc, spc, sendsLeft>>
  /\ UNCHANGED <<nodeVars, engineVars, callVars>>

Deregister(service) ==
  /\ catalogChanges < MaxCatalogChanges
  /\ service \in catalog
  /\ catalog' = catalog \ {service}
  /\ catalogChanges' = catalogChanges + 1
  /\ UNCHANGED <<services, watchStopCh, monitors, senders, wg, nilSends, dpc, spc, sendsLeft>>
  /\ UNCHANGED <<nodeVars, engineVars, callVars>>

\* ---- discoverServices ----
\* The (service, tag) pairs of a snapshot: one per tag of a service with
\* distinct_tags, one for any other service.
SnapshotEntries(cat) ==
  UNION {{<<s, t>> : t \in CatalogTags(s)} : s \in {x \in cat : DistinctTags(x)}} \cup
  {<<s, "">> : s \in {x \in cat : ~DistinctTags(x)}}

\* services[service+":"+tag] / services[service]
ServiceKey(e) == IF DistinctTags(e[1]) THEN e[1] \o ":" \o e[2] ELSE e[1]

\* The entries for which a watch is spawned: the key is not in the map and
\* the tag is not ignored.
SpawnedEntries(cat, known) ==
  {e \in SnapshotEntries(cat) : ServiceKey(e) \notin known /\ e[2] \notin IgnoredTags(e[1])}

\* The spawned watches, appended in some order of the map iteration.
RECURSIVE SpawnAll(_, _)
SpawnAll(mons, keys) ==
  IF keys = {} THEN mons
  ELSE LET k == CHOOSE x \in keys : TRUE
       IN  SpawnAll(Append(mons, NewMonitor(k)), keys \ {k})

\* The index of the watch spawned last for the key.
RECURSIVE LastMonitor(_, _, _)
LastMonitor(mons, key, n) ==
  IF n = 0 THEN 0
  ELSE IF mons[n].key = key THEN n ELSE LastMonitor(mons, key, n - 1)

\* select: no send is pending on shutdownCh: default, and the blocking
\* catalog query is issued
DiscoverQuery ==
  /\ Alive
  /\ dpc = "loop"
  /\ ~ShutdownReady
  /\ dpc' = "query"
  /\ UNCHANGED <<catalog, catalogChanges, services, watchStopCh, monitors, senders, wg,
                 nilSends, spc, sendsLeft>>
  /\ UNCHANGED <<nodeVars, engineVars, callVars>>

\* The catalog query returns an error: time.Sleep(errorWaitTime); continue
DiscoverQueryError ==
  /\ Alive
  /\ dpc = "query"
  /\ dpc' = "loop"
  /\ UNCHANGED <<catalog, catalogChanges, services, watchStopCh, monitors, senders, wg,
                 nilSends, spc, sendsLeft>>
  /\ UNCHANGED <<nodeVars, engineVars, callVars>>

\* client.Catalog().Node(nodeName) returns a nil node for a node the
\* catalog does not hold.
LocalNodeNil == serviceWatch = LocalMode /\ LocalNode \notin nodeCatalog

\* The query of the local mode returns no node: range node.Services
\* dereferences the nil pointer and the panic ends the process.
DiscoverNilNode ==
  /\ Alive
  /\ dpc = "query"
  /\ LocalNodeNil
  /\ dpc' = "panic"
  /\ spc' = "panicked"
  /\ UNCHANGED <<catalog, catalogChanges, services, watchStopCh, monitors, senders, wg,
                 nilSends, sendsLeft>>
  /\ UNCHANGED <<nodeVars, engineVars, callVars>>

\* The catalog query returns, whatever has arrived on shutdownCh since the
\* select: the watches for new services, the retirement of the services
\* that left, and the next round of the loop.  A retired watch gets a sender
\* nobody waits for.
DiscoverSnapshot ==
  /\ Alive
  /\ dpc = "query"
  /\ ~LocalNodeNil
  /\ dpc' = "loop"
  /\ LET current == {ServiceKey(e) : e \in SnapshotEntries(catalog)}
         spawned == {ServiceKey(e) : e \in SpawnedEntries(catalog, services)}
         left    == services \ current
         mons    == SpawnAll(monitors, spawned)
     IN  /\ monitors' = mons
         /\ services' = current
         /\ watchStopCh' = [k \in current |->
                              IF k \in services THEN watchStopCh[k]
                              ELSE IF k \in spawned THEN LastMonitor(mons, k, Len(mons))
                              ELSE 0]
         /\ senders' = [m \in 1..Len(mons) |->
                          IF m > Len(monitors) THEN "none"
                          ELSE IF \E k \in left : watchStopCh[k] = m THEN "send1"
                          ELSE senders[m]]
  /\ UNCHANGED <<catalog, catalogChanges, wg, nilSends, spc, sendsLeft>>
  /\ UNCHANGED <<nodeVars, engineVars, callVars>>

\* case <-shutdownCh: one sender per key of the services map, wg.Wait()
DiscoverShutdown ==
  /\ Alive
  /\ dpc = "loop"
  /\ ShutdownReady
  /\ sendsLeft' = sendsLeft - 1
  /\ wg' = {watchStopCh[k] : k \in services} \ {0}
  /\ nilSends' = Cardinality({k \in services : watchStopCh[k] = 0})
  /\ senders' = [m \in 1..Len(monitors) |-> IF m \in wg' THEN "send1" ELSE senders[m]]
  /\ dpc' = "wait"
  /\ UNCHANGED <<catalog, catalogChanges, services, watchStopCh, monitors, spc>>
  /\ UNCHANGED <<nodeVars, engineVars, callVars>>

\* wg.Wait() returns: every sender of the wait group has made both sends
DiscoverWaited ==
  /\ Alive
  /\ dpc = "wait"
  /\ nilSends = 0
  /\ \A m \in wg : senders[m] = "done"
  /\ dpc' = "receive"
  /\ UNCHANGED <<catalog, catalogChanges, services, watchStopCh, monitors, senders, wg,
                 nilSends, spc, sendsLeft>>
  /\ UNCHANGED <<nodeVars, engineVars, callVars>>

\* <-shutdownCh; return
DiscoverReturn ==
  /\ Alive
  /\ dpc = "receive"
  /\ ShutdownReady
  /\ sendsLeft' = sendsLeft - 1
  /\ dpc' = "returned"
  /\ UNCHANGED <<catalog, catalogChanges, services, watchStopCh, monitors, senders, wg,
                 nilSends, spc>>
  /\ UNCHANGED <<nodeVars, engineVars, callVars>>

\* ---- environment: the nodes of the catalog ----
RegisterNode(node) ==
  /\ NodesObserved
  /\ catalogChanges < MaxCatalogChanges
  /\ node \notin nodeCatalog
  /\ nodeCatalog' = nodeCatalog \cup {node}
  /\ catalogChanges' = catalogChanges + 1
  /\ UNCHANGED <<catalog, services, watchStopCh, monitors, senders, wg, nilSends, dpc, spc,
                 sendsLeft>>
  /\ UNCHANGED <<serviceWatch, nodeWatch, nodes, nodeStopCh, nodeWg, npc>>
  /\ UNCHANGED <<engineVars, callVars>>

DeregisterNode(node) ==
  /\ NodesObserved
  /\ catalogChanges < MaxCatalogChanges
  /\ node \in nodeCatalog
  /\ nodeCatalog' = nodeCatalog \ {node}
  /\ catalogChanges' = catalogChanges + 1
  /\ UNCHANGED <<catalog, services, watchStopCh, monitors, senders, wg, nilSends, dpc, spc,
                 sendsLeft>>
  /\ UNCHANGED <<serviceWatch, nodeWatch, nodes, nodeStopCh, nodeWg, npc>>
  /\ UNCHANGED <<engineVars, callVars>>

\* ---- discoverNodes ----
\* select: no send is pending on shutdownCh: default, and the blocking
\* catalog query is issued
DiscoverNodesQuery ==
  /\ Alive
  /\ npc = "loop"
  /\ ~ShutdownReady
  /\ npc' = "query"
  /\ UNCHANGED <<catalog, catalogChanges, services, watchStopCh, monitors, senders, wg,
                 nilSends, dpc, spc, sendsLeft>>
  /\ UNCHANGED <<serviceWatch, nodeWatch, nodeCatalog, nodes, nodeStopCh, nodeWg>>
  /\ UNCHANGED <<engineVars, callVars>>

\* The catalog query returns an error: time.Sleep(errorWaitTime); continue
DiscoverNodesQueryError ==
  /\ Alive
  /\ npc = "query"
  /\ npc' = "loop"
  /\ UNCHANGED <<catalog, catalogChanges, services, watchStopCh, monitors, senders, wg,
                 nilSends, dpc, spc, sendsLeft>>
  /\ UNCHANGED <<serviceWatch, nodeWatch, nodeCatalog, nodes, nodeStopCh, nodeWg>>
  /\ UNCHANGED <<engineVars, callVars>>

\* The catalog query returns, whatever has arrived on shutdownCh since the
\* select: a watch for every node that is not in the map, the retirement of
\* the nodes that left, and the next round of the loop.  A retired watch
\* gets a sender nobody waits for.
DiscoverNodesSnapshot ==
  /\ Alive
  /\ npc = "query"
  /\ npc' = "loop"
  /\ LET spawned == nodeCatalog \ nodes
         left    == nodes \ nodeCatalog
         mons    == SpawnAll(monitors, spawned)
     IN  /\ monitors' = mons
         /\ nodes' = nodeCatalog
         /\ nodeStopCh' = [n \in nodeCatalog |->
                             IF n \in nodes THEN nodeStopCh[n]
                             ELSE LastMonitor(mons, n, Len(mons))]
         /\ senders' = [m \in 1..Len(mons) |->
                          IF m > Len(monitors) THEN "none"
                          ELSE IF \E n \in left : nodeStopCh[n] = m THEN "send1"
                          ELSE senders[m]]
  /\ UNCHANGED <<catalog, catalogChanges, services, watchStopCh, wg, nilSends, dpc, spc,
                 sendsLeft>>
  /\ UNCHANGED <<serviceWatch, nodeWatch, nodeCatalog, nodeWg>>
  /\ UNCHANGED <<engineVars, callVars>>

\* case <-shutdownCh: one sender per key of the nodes map, wg.Wait()
DiscoverNodesShutdown ==
  /\ Alive
  /\ npc = "loop"
  /\ ShutdownReady
  /\ sendsLeft' = sendsLeft - 1
  /\ nodeWg' = {nodeStopCh[n] : n \in nodes}
  /\ senders' = [m \in 1..Len(monitors) |-> IF m \in nodeWg' THEN "send1" ELSE senders[m]]
  /\ npc' = "wait"
  /\ UNCHANGED <<catalog, catalogChanges, services, watchStopCh, monitors, wg, nilSends, dpc,
                 spc>>
  /\ UNCHANGED <<serviceWatch, nodeWatch, nodeCatalog, nodes, nodeStopCh>>
  /\ UNCHANGED <<engineVars, callVars>>

\* wg.Wait() returns: every sender of the wait group has made both sends
DiscoverNodesWaited ==
  /\ Alive
  /\ npc = "wait"
  /\ \A m \in nodeWg : senders[m] = "done"
  /\ npc' = "receive"
  /\ UNCHANGED <<catalog, catalogChanges, services, watchStopCh, monitors, senders, wg,
                 nilSends, dpc, spc, sendsLeft>>
  /\ UNCHANGED <<serviceWatch, nodeWatch, nodeCatalog, nodes, nodeStopCh, nodeWg>>
  /\ UNCHANGED <<engineVars, callVars>>

\* <-shutdownCh; return
DiscoverNodesReturn ==
  /\ Alive
  /\ npc = "receive"
  /\ ShutdownReady
  /\ sendsLeft' = sendsLeft - 1
  /\ npc' = "returned"
  /\ UNCHANGED <<catalog, catalogChanges, services, watchStopCh, monitors, senders, wg,
                 nilSends, dpc, spc>>
  /\ UNCHANGED <<serviceWatch, nodeWatch, nodeCatalog, nodes, nodeStopCh, nodeWg>>
  /\ UNCHANGED <<engineVars, callVars>>

\* ---- watch and its LockHelper, as far as teardown goes ----
\* LockHelper.start: Lock() succeeds for a watch that was not stopped; the
\* key of a subject is held by one session at a time.
MonitorAcquire(m) ==
  /\ Alive
  /\ monitors[m].pc = "top"
  /\ ~monitors[m].acquired
  /\ \A n \in 1..Len(monitors) : monitors[n].key = monitors[m].key => ~monitors[n].acquired
  /\ monitors' = [monitors EXCEPT ![m].acquired = TRUE]
  /\ UNCHANGED <<catalog, catalogChanges, services, watchStopCh, senders, wg, nilSends, dpc,
                 spc, sendsLeft>>
  /\ UNCHANGED <<nodeVars, engineVars, callVars>>

\* case <-opts.stopCh: the first send is received
MonitorStop(m) ==
  /\ Alive
  /\ monitors[m].pc = "top"
  /\ SenderReady(m)
  /\ ReceiveStop(m)
  /\ monitors' = [monitors EXCEPT ![m].pc = "stopping"]
  /\ UNCHANGED <<catalog, catalogChanges, services, watchStopCh, wg, nilSends, dpc, spc>>
  /\ UNCHANGED <<nodeVars, engineVars, callVars>>

\* lock.stop(): Unlock, Destroy, acquired = false
MonitorLockStop(m) ==
  /\ Alive
  /\ monitors[m].pc = "stopping"
  /\ monitors' = [monitors EXCEPT ![m] = [@ EXCEPT !.pc = "ack", !.acquired = FALSE,
                                                     !.stopped = TRUE]]
  /\ UNCHANGED <<catalog, catalogChanges, services, watchStopCh, senders, wg, nilSends, dpc,
                 spc, sendsLeft>>
  /\ UNCHANGED <<nodeVars, engineVars, callVars>>

\* <-opts.stopCh; return: the second send is received
MonitorReturn(m) ==
  /\ Alive
  /\ monitors[m].pc = "ack"
  /\ SenderReady(m)
  /\ ReceiveStop(m)
  /\ monitors' = [monitors EXCEPT ![m].pc = "returned"]
  /\ UNCHANGED <<catalog, catalogChanges, services, watchStopCh, wg, nilSends, dpc, spc>>
  /\ UNCHANGED <<nodeVars, engineVars, callVars>>

\* client.LockKey(lockPath) returns an error in a watch that has just
\* started: log.Fatalf ends the process.
MonitorLockKeyFailed(m) ==
  /\ Alive
  /\ monitors[m].pc = "top"
  /\ ~monitors[m].acquired
  /\ ~monitors[m].stopped
  /\ monitors' = [monitors EXCEPT ![m].pc = "failed"]
  /\ spc' = "exited"
  /\ UNCHANGED <<catalog, catalogChanges, services, watchStopCh, senders, wg, nilSends, dpc,
                 sendsLeft>>
  /\ UNCHANGED <<nodeVars, engineVars, callVars>>

\* ---- main and shutdown() ----
\* SIGINT, SIGTERM or SIGQUIT arrives: shutdown() starts its sends.
Signal ==
  /\ spc = "running"
  /\ spc' = "sending"
  /\ sendsLeft' = ShutdownSends
  /\ UNCHANGED <<catalog, catalogChanges, services, watchStopCh, monitors, senders, wg,
                 nilSends, dpc>>
  /\ UNCHANGED <<nodeVars, engineVars, callVars>>

\* All sends were received: os.Exit(0)
ShutdownExit ==
  /\ spc = "sending"
  /\ sendsLeft = 0
  /\ spc' = "exited"
  /\ UNCHANGED <<catalog, catalogChanges, services, watchStopCh, monitors, senders, wg,
                 nilSends, dpc, sendsLeft>>
  /\ UNCHANGED <<nodeVars, engineVars, callVars>>

ShutdownNext ==
  \/ \E service \in ServiceNames : Register(service)
  \/ \E service \in ServiceNames : Deregister(service)
  \/ DiscoverQuery
  \/ DiscoverQueryError
  \/ DiscoverNilNode
  \/ DiscoverSnapshot
  \/ DiscoverShutdown
  \/ DiscoverWaited
  \/ DiscoverReturn
  \/ \E node \in NodeNames : RegisterNode(node)
  \/ \E node \in NodeNames : DeregisterNode(node)
  \/ DiscoverNodesQuery
  \/ DiscoverNodesQueryError
  \/ DiscoverNodesSnapshot
  \/ DiscoverNodesShutdown
  \/ DiscoverNodesWaited
  \/ DiscoverNodesReturn
  \/ \E m \in 1..Len(monitors) : MonitorAcquire(m)
  \/ \E m \in 1..Len(monitors) : MonitorStop(m)
  \/ \E m \in 1..Len(monitors) : MonitorLockStop(m)
  \/ \E m \in 1..Len(monitors) : MonitorReturn(m)
  \/ Signal
  \/ ShutdownExit

\* Discovery and teardown while the creation of a lock may fail.
LockKeyNext ==
  \/ ShutdownNext
  \/ \E m \in 1..Len(monitors) : MonitorLockKeyFailed(m)

\* Part III at rest, for the specifications of the alert engine.
ShutdownParked ==
  ShutdownInit /\ catalog = {} /\ serviceWatch = GlobalMode /\ nodeWatch = LocalMode

\* Part II at rest, for the specification of the teardown.
EngineParked ==
  EngineInit /\ opts = NodeSubject /\ health = [k \in CheckIds |-> HealthPassing]

(***************************************************************************)
(* Part IV: the helper functions, called on their own                      *)
(***************************************************************************)
\* No call is made.
CallParked == fn = "" /\ args = <<>> /\ ret = <<>> /\ cpc = "idle"

\* ---- diffNodeChecks, diffServiceChecks ----
\* The checks of the snapshots handed to the diff functions: a node-level
\* check and a service check of node n1.
DiffIds == {<<"n1", "mem">>, <<"n1", "svc">>}
DiffSnapshots ==
  {HealthChecks(h, ids) : h \in [DiffIds -> Statuses], ids \in SUBSET DiffIds}
DiffLastStatus == UNION {[ids -> Statuses] : ids \in SUBSET DiffIds}

DiffInit ==
  /\ fn \in {"diffNodeChecks", "diffServiceChecks"}
  /\ args \in [checks : DiffSnapshots, lastStatus : DiffLastStatus]
  /\ ret = <<>>
  /\ cpc = "call"

\* updates := diffNodeChecks(checks, lastStatus, opts) for the node n1
CallDiffNodeChecks ==
  /\ cpc = "call" /\ fn = "diffNodeChecks"
  /\ ret' = diffNodeChecks(args.checks, args.lastStatus, NodeSubject)
  /\ cpc' = "return"
  /\ UNCHANGED <<fn, args, engineVars, shutdownVars>>

\* updates := diffServiceChecks(checks, lastStatus, opts) with opts.tag == ""
CallDiffServiceChecks ==
  /\ cpc = "call" /\ fn = "diffServiceChecks"
  /\ ret' = diffServiceChecks(args.checks, args.lastStatus, ServiceSubject, {})
  /\ cpc' = "return"
  /\ UNCHANGED <<fn, args, engineVars, shutdownVars>>

\* ---- computeHealth ----
\* The maps handed to computeHealth: up to MaxEntries entries whose status is
\* one of the three health states or any other string ("" here).
MaxEntries == 3
HealthKeys == {<<"n1", "c1">>, <<"n1", "c2">>, <<"n2", "c1">>, <<"n2", "c2">>}
HealthMaps ==
  UNION {[keys -> Statuses \cup {""}] :
           keys \in {ks \in SUBSET HealthKeys : Cardinality(ks) <= MaxEntries}}

ComputeHealthInit ==
  /\ fn = "computeHealth"
  /\ args \in [checks : HealthMaps]
  /\ ret = [health |-> HealthPassing, visited |-> {}]
  /\ cpc = "call"

\* for _, status := range checks: the range visits the entries of the map in
\* an order of the runtime's choosing, one entry per step.
ComputeHealthVisit(k) ==
  /\ cpc = "call" /\ fn = "computeHealth"
  /\ k \in DOMAIN args.checks \ ret.visited
  /\ ret' = [health |-> healthAfter(ret.health, args.checks[k]),
             visited |-> ret.visited \cup {k}]
  /\ UNCHANGED <<fn, args, cpc, engineVars, shutdownVars>>

\* return health
ComputeHealthReturn ==
  /\ cpc = "call" /\ fn = "computeHealth"
  /\ ret.visited = DOMAIN args.checks
  /\ ret' = ret.health
  /\ cpc' = "return"
  /\ UNCHANGED <<fn, args, engineVars, shutdownVars>>

\* ---- setAlertState / getAlertState, updateCheckState / getCheckState ----
\* The values written.  An AlertState has the statuses, the subject and the
\* update index of a watch (indexes of one, two and three digits) with the
\* message and the details of an alert, or it has a message and details out
\* of every text of up to MaxText pieces: the characters JSON escapes, and
\* runs that read like the code of an escape.  A CheckUpdate is one of a
\* check of CheckIds, with and without a service tag.
MaxIndex == 2
MaxText == 2
AlertIndexes == (0..MaxIndex) \cup {10 * MaxIndex, 100 + MaxIndex}
TextPieces == Specials \cup {"n", "u003c"}
Texts(max) ==
  {t \in UNION {[1..n -> TextPieces] : n \in 0..max} :
     \A k \in 1..(Len(t) - 1) : ~(IsRun(t[k]) /\ IsRun(t[k + 1]))}
AlertSubjects == {NodeSubject, ServiceSubject, TaggedSubject}
FailingSnapshot(o) == HealthChecks([k \in CheckIds |-> HealthCritical], VisibleChecks(o))
WatchAlertStates(o) ==
  {[Status |-> status, Node |-> o.node, Service |-> o.service, Tag |-> o.tag,
    UpdateIndex |-> index, LastAlerted |-> last,
    Message |-> IF status = "" THEN <<>> ELSE alertMessage(o, status),
    Details |-> details] :
     status \in Statuses \cup {""}, last \in Statuses \cup {""}, index \in AlertIndexes,
     details \in {<<>>} \cup alertDetails(o, FailingSnapshot(o))}
TextAlertStates(o) ==
  {[seedAlert(o) EXCEPT !.Message = message, !.Details = details] :
     message \in Texts(MaxText), details \in Texts(MaxText)}
CheckUpdates ==
  {[ServiceTag |-> tag, check |-> c] :
     tag \in {"", TaggedSubject.tag},
     c \in UNION {HealthChecks(h, CheckIds) : h \in [CheckIds -> Statuses]}}

\* An empty KV store.
EmptyStore == [p \in KVPaths |-> NoKey]

\* A value is about to be written to its key, or the key holds an empty value
\* and is about to be read.
StoreInit ==
  /\ \/ /\ fn = "AlertState"
        /\ args \in [empty : {FALSE}, path : {alertPath(NodeSubject)},
                     value : UNION {WatchAlertStates(o) : o \in AlertSubjects}
                               \cup TextAlertStates(NodeSubject)]
     \/ fn = "CheckState" /\ args \in {[empty |-> FALSE, path |-> checkStatePath(u), value |-> u] :
                                          u \in CheckUpdates}
  /\ ret = [store |-> EmptyStore]
  /\ cpc = "call"

EmptyValueInit ==
  /\ fn \in {"AlertState", "CheckState"}
  /\ args = [empty |-> TRUE, path |-> alertPath(ServiceSubject), value |-> ""]
  /\ ret = [store |-> [EmptyStore EXCEPT ![alertPath(ServiceSubject)] = EmptyValue]]
  /\ cpc = "stored"

\* setAlertState(kvPath, alert, client)
CallSetAlertState ==
  /\ cpc = "call" /\ fn = "AlertState"
  /\ ret' = [store |-> [ret.store EXCEPT ![args.path] = marshalAlertState(args.value)]]
  /\ cpc' = "stored"
  /\ UNCHANGED <<fn, args, engineVars, shutdownVars>>

\* updateCheckState(update, client)
CallUpdateCheckState ==
  /\ cpc = "call" /\ fn = "CheckState"
  /\ ret' = [store |-> updateCheckStates(ret.store, <<args.value>>)]
  /\ cpc' = "stored"
  /\ UNCHANGED <<fn, args, engineVars, shutdownVars>>

\* getAlertState(kvPath, client)
CallGetAlertState ==
  /\ cpc = "stored" /\ fn = "AlertState"
  /\ ret' = [store |-> ret.store, got |-> getAlertState(ret.store[args.path])]
  /\ cpc' = "return"
  /\ UNCHANGED <<fn, args, engineVars, shutdownVars>>

\* getCheckState(kvPath, client)
CallGetCheckState ==
  /\ cpc = "stored" /\ fn = "CheckState"
  /\ ret' = [store |-> ret.store, got |-> getCheckState(ret.store[args.path])]
  /\ cpc' = "return"
  /\ UNCHANGED <<fn, args, engineVars, shutdownVars>>

\* ---- serviceHandlers and the handler loop of tryAlert ----
\* The configurations: the configured handlers by name, default_handlers,
\* and at most one service block (for "redis") with its handlers list.  The
\* lists may name a handler that is not configured.
HandlerNames == {"test", "test_ignored"}
FilterNames == HandlerNames \cup {"unknown"}
Configs ==
  [Handlers : SUBSET HandlerNames,
   DefaultHandlers : SUBSET FilterNames,
   Services : {<<>>} \cup {[name \in {"redis"} |-> [Handlers |-> hs]] : hs \in SUBSET FilterNames}]

\* config.serviceConfig(service): [nil, Handlers]
serviceConfig(config, service) ==
  IF service \in DOMAIN config.Services
  THEN [nil |-> FALSE, Handlers |-> config.Services[service].Handlers]
  ELSE [nil |-> TRUE, Handlers |-> {}]

\* Faulty variant: the filter lists are not applied.
serviceHandlersUnfiltered(config, service) == config.Handlers

\* config.serviceHandlers(service): the names of the handlers returned
serviceHandlers(config, service) ==
  LET sc == serviceConfig(config, service)
      own == IF ~sc.nil THEN sc.Handlers ELSE {}
      filters == IF own = {} THEN config.DefaultHandlers ELSE own
  IN  {name \in config.Handlers : filters = {} \/ name \in filters}

HandlersInit ==
  /\ fn = "serviceHandlers"
  /\ args \in [config : Configs, service : {"", "redis"}]
  /\ ret = [handlers |-> {}, invoked |-> {}]
  /\ cpc = "call"

\* tryAlert decided to alert: for _, handler := range serviceHandlers(service)
CallServiceHandlers ==
  /\ cpc = "call" /\ fn = "serviceHandlers"
  /\ ret' = [handlers |-> serviceHandlers(args.config, args.service), invoked |-> {}]
  /\ cpc' = "range"
  /\ UNCHANGED <<fn, args, engineVars, shutdownVars>>

\* handler.Alert(datacenter, alert) for the next handler of the range
InvokeHandler(name) ==
  /\ cpc = "range" /\ fn = "serviceHandlers"
  /\ name \in ret.handlers \ ret.invoked
  /\ ret' = [ret EXCEPT !.invoked = @ \cup {name}]
  /\ UNCHANGED <<fn, args, cpc, engineVars, shutdownVars>>

\* The range is exhausted.
HandlersDone ==
  /\ cpc = "range" /\ fn = "serviceHandlers"
  /\ ret.invoked = ret.handlers
  /\ cpc' = "return"
  /\ UNCHANGED <<fn, args, ret, engineVars, shutdownVars>>

CallNext ==
  \/ CallServiceHandlers
  \/ \E name \in HandlerNames : InvokeHandler(name)
  \/ HandlersDone
  \/ CallSetAlertState
  \/ CallUpdateCheckState
  \/ CallGetAlertState
  \/ CallGetCheckState
  \/ CallDiffNodeChecks
  \/ CallDiffServiceChecks
  \/ \E k \in HealthKeys : ComputeHealthVisit(k)
  \/ ComputeHealthReturn

vars == <<engineVars, shutdownVars, callVars>>
Init == EngineInit /\ ShutdownParked /\ CallParked
Next == EngineNext
\* Tenures end while the daemons monitor the node.
HandoffInit == Init /\ opts = NodeSubject
Spec == HandoffInit /\ [][Next]_vars
SpecRetire == HandoffInit /\ [][RetireNext]_vars
SpecStable == Init /\ [][StableNext]_vars
\* One leader, and the health stands as it was when the watches started: the
\* first snapshot of the leader is the only one.
SpecFirst == Init /\ [][DaemonStep]_vars
InitShutdown == EngineParked /\ ShutdownInit /\ CallParked
SpecShutdown == InitShutdown /\ [][ShutdownNext]_vars

\* ---- the monitor of one tag of a service with distinct_tags ----
\* One leader; the catalog requests of the diff may fail.
TaggedNext ==
  \/ StableNext
  \/ \E i \in Inst : WatchLookup(i)
  \/ \E i \in Inst : WatchLookupFailed(i)

TaggedInit == EngineInitFor({TaggedSubject}) /\ ShutdownParked /\ CallParked
SpecTagged == TaggedInit /\ [][TaggedNext]_vars

\* The key of the CheckState of check k of subject o.
CheckPathOf(o, k) ==
  checkStatePath([ServiceTag |-> o.tag,
                  check |-> [Node |-> k[1], CheckID |-> k[2], ServiceID |-> ServiceIDOf(k)]])
SubjectCheckPath(k) == CheckPathOf(opts, k)

\* The AlertState a leader of subject o has stored once it had seen the
\* checks with the statuses stored and had alerted their aggregate: one
\* proposal for the aggregate, recorded as alerted.
AlertedState(o, stored) ==
  LET status == computeHealth(stored)
      checks == HealthChecks(stored, DOMAIN stored)
  IN  [seedAlert(o) EXCEPT !.Status = status, !.UpdateIndex = 1, !.LastAlerted = status,
                           !.Message = alertMessage(o, status),
                           !.Details = CHOOSE d \in alertDetails(o, checks) : TRUE]

\* The CheckStates stored in the KV store for the subject: check -> status.
CheckStatusIn(store) ==
  [k \in {c \in VisibleChecks(opts) : store[SubjectCheckPath(c)].exists} |->
     getCheckState(store[SubjectCheckPath(k)]).cs.Status]
StoredCheckStatus == CheckStatusIn(kv)

\* ---- one leader whose writes of check states can fail ----
FaultsStep(limit) ==
  \/ DaemonStep
  \/ \E k \in VisibleChecks(opts) : \E s \in Statuses : SetHealth(k, s, limit)
  \/ \E i \in Inst : \E h \in cycle[i].left : WatchUpdateFailed(i, h)
  \/ \E i \in Inst : WatchCommitSkipped(i)
  \/ \E i \in Inst : WatchQueryError(i)

FaultsNext == FaultsStep(MaxFaultChanges)

\* The same with fewer changes of the health: a failed cycle and its retry.
RetryNext == FaultsStep(MaxRetryChanges)

\* One leader; a handler may fail to deliver.
SinkFaultsNext ==
  \/ DaemonStep
  \/ \E k \in VisibleChecks(opts) : \E s \in Statuses : SetHealth(k, s, MaxFaultChanges)
  \/ \E i \in Inst : \E t \in 1..Len(tasks[i]) : TryAlertHandlersSinkFailed(i, t)

\* One leader; the alert key may disappear from the store.
DeletedNext ==
  \/ DaemonStep
  \/ \E k \in VisibleChecks(opts) : \E s \in Statuses : SetHealth(k, s, MaxRetryChanges)
  \/ DeleteAlert

\* ---- a store left by an earlier tenure, one value of which may not parse ----
CorruptNext ==
  \/ DaemonStep
  \/ RehydrateStep
  \/ \E k \in VisibleChecks(opts) : \E s \in Statuses : SetHealth(k, s, MaxHandoffChanges)
  \/ \E i \in Inst : LockCallbackKeysFailed(i)
  \/ \E i \in Inst : LockCallbackGetFailed(i)

\* The keys of the subject: its alert key and the keys of its check states.
SubjectKeys(o) == {alertPath(o)} \cup {SubjectCheckPath(k) : k \in VisibleChecks(o)}

\* The earlier leader stored the states of the subject's checks and alerted
\* their aggregate; afterwards the value of at most one key was damaged.
EarlierTenureStores ==
  {[p \in KVPaths |->
      IF p = damaged THEN CorruptValue
      ELSE IF p = alertPath(ApiSubject)
      THEN marshalAlertState(AlertedState(ApiSubject, stored))
      ELSE IF \E k \in DOMAIN stored : p = CheckPathOf(ApiSubject, k)
      THEN marshalCheckState([Status |-> stored[CHOOSE k \in DOMAIN stored :
                                                   p = CheckPathOf(ApiSubject, k)]])
      ELSE NoKey] :
     stored \in [VisibleChecks(ApiSubject) -> Statuses],
     damaged \in SubjectKeys(ApiSubject) \cup {<<>>}}

CorruptEngineInit ==
  /\ opts = ApiSubject
  /\ health \in [CheckIds -> Statuses]
  /\ \A k \in CheckIds \ VisibleChecks(opts) : health[k] = HealthPassing
  /\ kv \in EarlierTenureStores
  /\ lockHolder = 0
  /\ lpc = [i \in Inst |-> "select"]
  /\ wpc = [i \in Inst |-> "top"]
  /\ acquired = [i \in Inst |-> FALSE]
  /\ isHeld = [i \in Inst |-> FALSE]
  /\ intClosed = [i \in Inst |-> FALSE]
  /\ stopCh = [i \in Inst |-> FALSE]
  /\ lockCh = [i \in Inst |-> FALSE]
  /\ stopSt = [i \in Inst |-> "none"]
  /\ lastCheckStatus = [i \in Inst |-> <<>>]
  /\ lastAlertStatus = [i \in Inst |-> HealthPassing]
  /\ cycle = [i \in Inst |-> NoCycle]
  /\ loading = [i \in Inst |-> NoLoad]
  /\ tasks = [i \in Inst |-> <<>>]
  /\ alertLock = [i \in Inst |-> 0]
  /\ emitted = <<>>
  /\ expected = <<>>
  /\ held = TRUE
  /\ flap = NoFlap
  /\ changes = 0
  /\ losses = 0
  /\ stops = 0
  /\ wlog = {}

CorruptInit == CorruptEngineInit /\ ShutdownParked /\ CallParked

\* ---- one leader that takes over the state of an earlier tenure ----
\* The store is as the earlier leader left it, and the checks have the
\* statuses it stored: the status of the subject is the one last alerted.
InheritedInit ==
  /\ CorruptInit
  /\ \A p \in KVPaths : kv[p].raw # "corrupt"
  /\ \A k \in VisibleChecks(opts) : getCheckState(kv[SubjectCheckPath(k)]).cs.Status = health[k]

InheritedNext ==
  \/ DaemonStep
  \/ RehydrateStep
  \/ \E k \in VisibleChecks(opts) : \E s \in Statuses : SetHealth(k, s, MaxChanges)

\* ---- one leader with several tryAlerts; the requests of tryAlert can fail ----
\* One leader, health changes and deregistrations of the subject's checks.
DeregisterNext ==
  \/ DaemonStep
  \/ \E k \in VisibleChecks(opts) : \E s \in Statuses : SetHealth(k, s, MaxChanges)
  \/ \E k \in VisibleChecks(opts) : DeregisterCheck(k, MaxChanges)

AlertLockNext ==
  \/ DaemonStep
  \/ \E k \in VisibleChecks(opts) : \E s \in Statuses : SetHealth(k, s, MaxChanges)
  \/ DamageAlert
  \/ \E i \in Inst : \E t \in 1..Len(tasks[i]) : TryAlertBeginGetFailed(i, t)
  \/ \E i \in Inst : \E t \in 1..Len(tasks[i]) : TryAlertStoreFailed(i, t)
  \/ \E i \in Inst : \E t \in 1..Len(tasks[i]) : TryAlertWakeGetFailed(i, t)
  \/ \E i \in Inst : \E t \in 1..Len(tasks[i]) : TryAlertRecordFailed(i, t)

\* ---- a daemon's process can end ----
ExitNext ==
  \/ DaemonStep
  \/ RehydrateStep
  \/ \E k \in VisibleChecks(opts) : \E s \in Statuses : SetHealth(k, s, MaxHandoffChanges)
  \/ \E i \in Inst : ProcessExit(i)

\* The watches start while every check of the subject passes.
FaultsInit ==
  /\ EngineInitFor({ApiSubject}) /\ health = [k \in CheckIds |-> HealthPassing]
  /\ ShutdownParked /\ CallParked
SpecFaults == FaultsInit /\ [][FaultsNext]_vars
SpecRetry == FaultsInit /\ [][RetryNext]_vars
SpecAlertLock == FaultsInit /\ [][AlertLockNext]_vars
SpecExit == FaultsInit /\ [][ExitNext]_vars
SpecDeregister == FaultsInit /\ [][DeregisterNext]_vars
SpecDeleted == FaultsInit /\ [][DeletedNext]_vars
SpecLockKey == InitShutdown /\ [][LockKeyNext]_vars
SpecCorrupt == CorruptInit /\ [][CorruptNext]_vars
SpecInherited == InheritedInit /\ [][InheritedNext]_vars
SpecSinkFaults == FaultsInit /\ [][SinkFaultsNext]_vars

\* ---- the helper functions on bounded inputs ----
CallInit == EngineParked /\ ShutdownParked /\ (DiffInit \/ ComputeHealthInit \/ StoreInit \/ EmptyValueInit \/ HandlersInit)
SpecCalls == CallInit /\ [][CallNext]_vars

\* ---- failover: the lock changes hands while the health stands still ----
\* The steps of the LockHelper.start goroutine of daemon i.
LockStep(i) ==
  \/ LockSelect(i)
  \/ LockAcquire(i)
  \/ LockInterrupted(i)
  \/ LockCallbackKeys(i)
  \/ LockCallbackGet(i)
  \/ \E n \in DOMAIN loading[i].states : LockCallbackApply(i, n)
  \/ LockSetAcquired(i)
  \/ LockLost(i)

\* The steps of the watch goroutine of daemon i.
WatchStep(i) ==
  \/ WatchBegin(i)
  \/ WatchQuery(i)
  \/ \E h \in cycle[i].left : WatchUpdate(i, h)
  \/ \E h \in cycle[i].left : WatchCommit(i, h)
  \/ WatchComputeHealth(i)
  \/ WatchStop(i)
  \/ WatchStopUnlock(i)
  \/ WatchStopClear(i)
  \/ WatchStopAck(i)

FailoverNext ==
  \/ \E i \in Inst : LockStep(i)
  \/ \E i \in Inst : WatchStep(i)
  \/ \E i \in Inst : SessionLost(i)
  \/ \E i \in Inst : StopMonitor(i)
  \/ \E i \in Inst : MapRaceAbort(i)
  \/ \E i \in Inst : ProcessExit(i)

\* The Go scheduler runs every goroutine that can take a step, and Consul
\* answers every request: each goroutine of each daemon is weakly fair.
\* Session loss, stop requests and the end of a process are the
\* environment's and need not happen.
FailoverFairness ==
  \A i \in Inst : WF_vars(LockStep(i)) /\ WF_vars(WatchStep(i))

\* The failover of a service subject whose checks pass: the watch stores the
\* check states and no tryAlert is started.
FailoverInit ==
  Init /\ opts = ServiceSubject /\ health = [k \in CheckIds |-> HealthPassing]
SpecFailover == FailoverInit /\ [][FailoverNext]_vars /\ FailoverFairness

(***************************************************************************)
(* Properties of the alert engine                                          *)
(***************************************************************************)
EmittedStatuses == [k \in 1..Len(emitted) |-> emitted[k].status]

\* C1: for the subject, at most one daemon believes it is leader: at most
\* one LockHelper has acquired = true, also while the lock changes hands.
AtMostOneAcquired ==
  \A i, j \in Inst : (acquired[i] /\ acquired[j]) => i = j

\* C2: every write to the subject's check-state keys and to its alert key
\* is made by the daemon that holds the subject's leader lock at the moment
\* of the write.
WritesOnlyByLeader ==
  \A w \in wlog : w.leader

\* C3: when the aggregate status goes A -> B -> A inside one change_threshold
\* window, starting with last_alerted = A (both proposals have stored their
\* update index before the sleep of either has ended), no handler is invoked.
NoAlertOnFlap ==
  flap.phase = "flipped" => Len(emitted) = flap.base

\* C4: while one leader holds the lock and every change of the aggregate
\* status away from last_alerted is held until the engine has settled, the
\* handlers are invoked exactly once per transition, with the new status,
\* in the order of the transitions; also for a leader that has taken over
\* the stored state of an earlier tenure.
HeldTransitionsAlertedOnce ==
  held => /\ Len(EmittedStatuses) <= Len(expected)
          /\ EmittedStatuses = SubSeq(expected, 1, Len(emitted))
          /\ (Quiescent => EmittedStatuses = expected)

\* C5: with two monitors running for the subject, every handler invocation
\* is made by the daemon that holds the lock at that moment, a monitor that
\* does not hold the lock proposes nothing, and the held transitions get
\* one invocation each in total and no further one; also when the lock
\* changes hands between the two monitors.
OnlyLockHolderAlerts ==
  /\ [][/\ Len(emitted') > Len(emitted) => emitted'[Len(emitted')].inst = lockHolder
        /\ \A j \in Inst : Len(tasks'[j]) > Len(tasks[j]) => lockHolder = j]_vars
  /\ []((held /\ Quiescent) => EmittedStatuses = expected)

\* C6: across handoffs, every real status change results in at most one
\* handler invocation in total across the fleet.
AtMostOneAlertPerChange ==
  Len(emitted) <= Len(expected)

\* C7: the same status is never alerted twice in a row for the subject.
NoRepeatedAlert ==
  \A k \in 1..(Len(emitted) - 1) : emitted[k].status # emitted[k + 1].status

\* C8: no hanging alert after a handoff: once a newly elected leader has
\* seen the status return to passing and the engine has settled, the last
\* alert sent for the subject (by a previous leader, every write so far
\* having been made under the lock) is not a failing one.
NoHangingAlert ==
  (/\ held /\ Quiescent
   /\ \A w \in wlog : w.leader
   /\ Aggregate(opts, health) = HealthPassing
   /\ emitted # <<>>
   /\ emitted[Len(emitted)].inst # lockHolder)
  => emitted[Len(emitted)].status = HealthPassing

\* C9: a leader of a subject without stored state whose first snapshot
\* already aggregates to a failing status S emits exactly one alert, with
\* status S.
InitialFailureAlertedOnce ==
  changes = 0 =>
    /\ Len(emitted) <= 1
    /\ \A k \in 1..Len(emitted) : emitted[k].status = Aggregate(opts, health)
    /\ (Quiescent /\ Aggregate(opts, health) # HealthPassing => Len(emitted) = 1)

InitialFailureAlerted ==
  /\ changes = 0 /\ Quiescent
  /\ Aggregate(opts, health) # HealthPassing
  /\ EmittedStatuses = <<Aggregate(opts, health)>>

(***************************************************************************)
(* Properties of the teardown                                              *)
(***************************************************************************)
\* C10: shutdown() finishes its sends and the process exits only after every
\* watch of the process has executed LockHelper.stop(): no leader lock is
\* still held by a watch of the process when it exits.
LocksReleasedAtExit ==
  spc = "exited" => \A m \in 1..Len(monitors) : ~monitors[m].acquired

(***************************************************************************)
(* Properties of the failover                                              *)
(***************************************************************************)
\* A daemon is leader: it holds the key, has run the callback and has
\* acquired = true.
Leader(j) == lockHolder = j /\ acquired[j] /\ lpc[j] = "held"

\* The daemon runs a monitor for the subject: its watch was not told to stop
\* and its process has not ended.
Running(j) == stopSt[j] = "none" /\ lpc[j] # "exit"

\* C11 (as stated): when the holder of the lock fails (its process has
\* ended), loses its session or is stopped while the other daemon runs a
\* monitor for the subject, the other daemon eventually acquires the lock,
\* runs the callback and is leader.
OtherDaemonTakesOver ==
  \A i \in Inst :
    (lockHolder = 0 /\ (intClosed[i] \/ ~Running(i)) /\ \A j \in Inst \ {i} : Running(j))
      ~> (\E j \in Inst \ {i} : Leader(j))

\* C11 (amended): when the key is free while a daemon runs a monitor for the
\* subject, or the monitor of one daemon has failed or was stopped while the
\* other daemon runs one, a daemon that runs a monitor eventually acquires
\* the lock, runs the callback and is leader (or no daemon runs a monitor any
\* more: each was told to stop or its process has ended).  After a failure
\* or a stop of the holder that leader is the other daemon: a process that
\* has ended does not come back and a stop is never taken back.
SomeDaemonTakesOver ==
  (\/ lockHolder = 0 /\ \E j \in Inst : Running(j)
   \/ \E i \in Inst : ~Running(i) /\ \A j \in Inst \ {i} : Running(j))
    ~> ((\E j \in Inst : Leader(j) /\ Running(j)) \/ (\A j \in Inst : ~Running(j)))

\* The process of the leader has ended after it had stored check states,
\* and the other daemon has taken over with the stored states.
TakenOverAfterFailure ==
  \E i, j \in Inst :
    /\ i # j /\ stopSt[i] = "none" /\ lpc[i] = "exit" /\ wpc[i] = "returned"
    /\ Leader(j) /\ lastCheckStatus[j] # <<>> /\ wlog # {} /\ \A w \in wlog : w.inst = i

(***************************************************************************)
(* Properties of the discovery                                             *)
(***************************************************************************)
\* C12: after discoverServices has processed a snapshot, every entry of its
\* tracking map has a monitor and a stop channel, the monitor is the one of
\* the entry's subject, and no monitor was started for an ignored tag.
TrackedEntriesHaveMonitors ==
  /\ \A k \in services :
       /\ watchStopCh[k] \in 1..Len(monitors)
       /\ monitors[watchStopCh[k]].key = k
  /\ \A m \in 1..Len(monitors), service \in ServiceNames :
       \A tag \in IgnoredTags(service) :
         monitors[m].key # ServiceKey(<<service, tag>>)

\* The watch m was retired: discoverServices or discoverNodes deleted its key
\* from its maps and handed its stop channel to the two-send goroutine.
Retired(m) ==
  /\ m \in 1..Len(monitors)
  /\ senders[m] # "shared"
  /\ \A k \in services : watchStopCh[k] # m
  /\ \A n \in nodes : nodeStopCh[n] # m

\* C13: the monitor of a subject that left the snapshot is signalled and
\* stops: it calls LockHelper.stop(), the leader lock of the subject is
\* released and the watch goroutine returns.  In the form a finite run can
\* refute: the daemon is never gone while a retired monitor has not yet
\* released its lock and returned.
RetiredMonitorsStop ==
  spc = "exited" =>
    \A m \in 1..Len(monitors) :
      Retired(m) => monitors[m].pc = "returned" /\ monitors[m].stopped /\ ~monitors[m].acquired

\* The second life of the subject: the watch of its first life (i) was
\* retired after it had stored state and has returned, and the watch started
\* at its reappearance (j), which begins with an empty lastCheckStatus, is
\* the leader and has settled on the current health.
SecondLife(i, j) ==
  /\ i # j
  /\ wpc[i] = "returned"
  /\ \E w \in wlog : w.inst = i
  /\ \A w \in wlog : w.leader
  /\ lockHolder = j
  /\ Quiescent

\* C14: a subject that was retired and reappears gets a new monitor, and a
\* non-passing status it then holds is alerted with its current status, also
\* when stored state of its earlier life exists: once the new monitor has
\* settled, the last alert sent for the subject carries the current status.
ReaddedSubjectAlerted ==
  \A i, j \in Inst :
    (SecondLife(i, j) /\ Aggregate(opts, health) # HealthPassing)
    => /\ emitted # <<>>
       /\ emitted[Len(emitted)].status = Aggregate(opts, health)

(***************************************************************************)
(* Properties of the health diff and the aggregation                       *)
(***************************************************************************)
\* C15: the aggregate status and the alerts of a ServiceTag monitor are
\* derived only from checks on nodes whose registration of the service
\* carries the tag: as long as every such check has been passing, the
\* monitor proposes nothing and no alert is sent, whatever the checks on the
\* nodes without the tag do.
TagAlertsFromTaggedNodes ==
  (opts.tag # "" /\ expected = <<>>) =>
    /\ emitted = <<>>
    /\ \A i \in Inst : lastAlertStatus[i] = HealthPassing

\* C16: diffNodeChecks and diffServiceChecks (without tag) return an update
\* for a check if and only if the check is relevant (node diff: empty
\* ServiceID; service diff: every check) and it is absent from lastStatus or
\* its status differs from its lastStatus entry; the update carries the check.
DiffReturnsChangedChecks ==
  (cpc = "return" /\ fn \in {"diffNodeChecks", "diffServiceChecks"}) =>
    LET relevant(c) == fn = "diffServiceChecks" \/ c.ServiceID = ""
        hash(c) == <<c.Node, c.CheckID>>
        changed(c) == \/ hash(c) \notin DOMAIN args.lastStatus
                      \/ args.lastStatus[hash(c)] # c.Status
    IN  /\ \A c \in args.checks :
             (hash(c) \in DOMAIN ret) <=> (relevant(c) /\ changed(c))
        /\ \A h \in DOMAIN ret :
             ret[h].check \in args.checks /\ hash(ret[h].check) = h

\* The node diff was handed a changed node check, and a service check that
\* is new to lastStatus, and returned the node check alone.
NodeDiffSkippedServiceCheck ==
  /\ cpc = "return" /\ fn = "diffNodeChecks"
  /\ DOMAIN args.lastStatus = {<<"n1", "mem">>}
  /\ Cardinality(args.checks) = 2
  /\ DOMAIN ret = {<<"n1", "mem">>}

\* C17: computeHealth returns passing for an empty map, critical if any entry
\* is critical, warning if some entry is warning and none is critical, and
\* passing otherwise, in whatever order the entries are visited; the watch's
\* aggregation of the same map gives the same status.
ComputeHealthIsMaxSeverity ==
  (cpc = "return" /\ fn = "computeHealth") =>
    LET checks == args.checks
        has(status) == \E k \in DOMAIN checks : checks[k] = status
    IN  /\ (DOMAIN checks = {} => ret = HealthPassing)
        /\ (has(HealthCritical) => ret = HealthCritical)
        /\ (has(HealthWarning) /\ ~has(HealthCritical) => ret = HealthWarning)
        /\ (~has(HealthWarning) /\ ~has(HealthCritical) => ret = HealthPassing)
        /\ \A k \in DOMAIN checks : Severity(checks[k]) <= Severity(ret)
        /\ ret = computeHealth(checks)

\* computeHealth returned critical for a map of three entries that holds a
\* critical, a warning and a passing one.
CriticalAmongThree ==
  /\ cpc = "return" /\ fn = "computeHealth"
  /\ Cardinality(DOMAIN args.checks) = 3
  /\ {args.checks[k] : k \in DOMAIN args.checks} = Statuses
  /\ ret = HealthCritical

(***************************************************************************)
(* Properties of the stored state                                          *)
(***************************************************************************)
\* C18: reading back what setAlertState / updateCheckState stored yields a
\* value equal to the one written, and a key that holds an empty value reads
\* as absent (nil) with getAlertState and with getCheckState.
StoredStateReadsBack ==
  (cpc = "return" /\ fn \in {"AlertState", "CheckState"}) =>
    IF args.empty THEN ret.got.nil
    ELSE /\ ~ret.got.nil
         /\ fn = "AlertState" => ret.got.alert = args.value
         /\ fn = "CheckState" => ret.got.cs = [Status |-> args.value.check.Status]
         /\ \A p \in KVPaths \ {args.path} : ret.store[p] = NoKey

\* An AlertState whose message has a quote and then a backslash and whose
\* details end with a backslash and the letter n was written and read back.
AlertStateReadBack ==
  /\ cpc = "return" /\ fn = "AlertState" /\ ~args.empty
  /\ args.value.Message = <<Quote, Backslash>>
  /\ args.value.Details = <<Backslash, "n">>
  /\ ~ret.got.nil /\ ret.got.alert = args.value

(***************************************************************************)
(* Properties of the handler selection                                     *)
(***************************************************************************)
\* C19: the handlers tryAlert invokes are those named in the handlers list
\* of the service when that list is non-empty, otherwise those named in
\* default_handlers when that is non-empty, otherwise all configured
\* handlers; no handler outside that set is invoked at any time.
InvokedHandlersAsConfigured ==
  fn = "serviceHandlers" =>
    LET config == args.config
        own == IF args.service \in DOMAIN config.Services
               THEN config.Services[args.service].Handlers ELSE {}
        selected == IF own # {} THEN config.Handlers \cap own
                    ELSE IF config.DefaultHandlers # {}
                    THEN config.Handlers \cap config.DefaultHandlers
                    ELSE config.Handlers
    IN  /\ ret.invoked \subseteq selected
        /\ cpc = "return" => ret.invoked = selected

\* TestAlert_specifyHandler: of two configured handlers the one named in the
\* service's list was invoked, although default_handlers names the other.
OnlyServiceHandlerInvoked ==
  /\ cpc = "return" /\ fn = "serviceHandlers"
  /\ args.service = "redis"
  /\ args.config.Handlers = HandlerNames
  /\ args.config.DefaultHandlers = {"test_ignored"}
  /\ "redis" \in DOMAIN args.config.Services
  /\ args.config.Services["redis"].Handlers = {"test"}
  /\ ret.invoked = {"test"}

(***************************************************************************)
(* Properties of the update index                                          *)
(***************************************************************************)
\* The stored AlertState of the subject, as a tryAlert reads it.
AlertIn(store) ==
  LET got == getAlertState(store[alertPath(opts)])
  IN  [exists |-> store[alertPath(opts)].exists, status |-> got.alert.Status,
       update_index |-> got.alert.UpdateIndex, last_alerted |-> got.alert.LastAlerted]
StoredAlert == AlertIn(kv)

\* C20: within one leader's tenure every write of the subject's
\* AlertState stores a strictly larger update_index than the write before
\* it, the write that records last_alerted included.
EveryAlertWriteBumpsIndex ==
  [][AlertIn(kv') # StoredAlert => AlertIn(kv').update_index > StoredAlert.update_index]_vars

(***************************************************************************)
(* Properties of the proposals                                             *)
(***************************************************************************)
\* C21: whenever tryAlert invokes a handler, the status it alerts is the
\* status of the most recent proposal of the monitor loop (lastAlertStatus),
\* however the tryAlert goroutines interleaved when they took alertLock for
\* their first critical section.  Stated for the emissions made when every
\* proposal spawned so far has completed its first critical section.
EmitsLatestProposal ==
  [][Len(emitted') > Len(emitted) =>
       LET e == emitted'[Len(emitted')]
       IN  (\A t \in 1..Len(tasks[e.inst]) : tasks[e.inst][t].pc \in {"sleep", "alert", "put2", "done"})
           => e.status = lastAlertStatus[e.inst]]_vars

(***************************************************************************)
(* Properties of the rehydration                                           *)
(***************************************************************************)
\* The callback of daemon i runs: the lock was granted, loadCheckStates has
\* not returned.
InCallback(i) == lpc[i] \in {"callback", "loading", "apply"}

\* C22: on every acquisition of the lock the callback has completed before
\* acquired becomes true, and between the grant of the lock and the
\* completion of the callback the monitor takes no step of a cycle that has
\* updates (no diff that finds updates, no KV write, no commit), also when
\* an iteration of the previous tenure is in flight.
NoDiffBeforeRehydration ==
  [][\A i \in Inst :
       /\ (~acquired[i] /\ acquired'[i]) => lpc[i] = "setacq"
       /\ InCallback(i) => (cycle'[i] = cycle[i] \/ lpc'[i] = "exit")]_vars

\* C23: after the callback lastCheckStatus holds entries of stored
\* CheckStates only, keyed node/check_id: every entry names a health check of
\* the subject, and none is derived from the alert key, the leader key or
\* the sub-tree of another subject.
RehydratedFromCheckStatesOnly ==
  \A i \in Inst :
    lpc[i] = "setacq" =>
      \A n \in DOMAIN lastCheckStatus[i] : n \in VisibleChecks(opts)

(***************************************************************************)
(* Properties of the cycle of the watch loop                               *)
(***************************************************************************)
\* The path of the stored CheckState of check k of the subject.
\* C24: whenever the monitor proposes a status to the gate, that status is
\* the maximum severity over the CheckStates stored for the subject at that
\* moment, also in a cycle that follows a partly failed write.
ProposalMatchesStoredStates ==
  [][\A i \in Inst :
       Len(tasks'[i]) > Len(tasks[i]) =>
         tasks'[i][Len(tasks'[i])].status = computeHealth(CheckStatusIn(kv'))]_vars

\* The updates the next cycle of daemon i computes when the health stays as
\* it is and lastCheckStatus is last.
NextUpdates(last) == diffCheckFunc(QueryChecks(opts, health), last, opts, {})

\* C25: from the failure of an updateCheckState call to the end of its
\* cycle, lastCheckStatus and lastAlertStatus of the monitor stay as they
\* were and no tryAlert is spawned; at the end of the cycle the next cycle
\* computes every update of the failed cycle again (for the health as it
\* is), so its write is made again; and once the leader has settled, every
\* held transition has been alerted, those whose writes had failed
\* included.
FailedCycleRetried ==
  /\ [][\A i \in Inst :
          ~cycle[i].success =>
            /\ lastCheckStatus'[i] = lastCheckStatus[i]
            /\ lastAlertStatus'[i] = lastAlertStatus[i]
            /\ Len(tasks'[i]) = Len(tasks[i])
            /\ (cycle'[i] = NoCycle \/ (~cycle'[i].success /\ cycle'[i].updates = cycle[i].updates))
            /\ (cycle'[i] = NoCycle =>
                  \A h \in DOMAIN cycle[i].updates :
                    cycle[i].updates[h].check \in QueryChecks(opts, health)
                      => /\ h \in DOMAIN NextUpdates(lastCheckStatus'[i])
                         /\ NextUpdates(lastCheckStatus'[i])[h] = cycle[i].updates[h])]_vars
  /\ []((held /\ Quiescent) => EmittedStatuses = expected)

\* A cycle failed, and the failing status it had found was alerted after a
\* later cycle.
AlertedAfterFailedCycle ==
  /\ held /\ Quiescent
  /\ \E w \in wlog : w.key = "failed"
  /\ Aggregate(opts, health) = HealthCritical
  /\ EmittedStatuses = <<HealthCritical>>
  /\ StoredCheckStatus = [k \in VisibleChecks(opts) |-> health[k]]

\* C26: the in-memory lastAlertStatus of a monitor changes only in the step
\* in which its tryAlert emits the alert, and then to the emitted status; a
\* proposal that is superseded or suppressed leaves it unchanged.
LastAlertStatusSetOnEmit ==
  [][\A i \in Inst :
       lastAlertStatus'[i] # lastAlertStatus[i] =>
         /\ Len(emitted') > Len(emitted)
         /\ emitted'[Len(emitted')] = [inst |-> i, status |-> lastAlertStatus'[i]]]_vars

\* C27: the stored last_alerted changes only to the status of the alert
\* that was delivered last: when the handler fails, tryAlert does not set
\* last_alerted to the proposed status.
LastAlertedOnlyAfterDelivery ==
  [][LastAlertedIn(kv') # StoredLastAlerted =>
       /\ Len(emitted) > 0
       /\ emitted[Len(emitted)].status = LastAlertedIn(kv')]_vars

\* C28: a tryAlert that ends its sleep while the subject's AlertState is
\* absent from the store invokes no handler, writes nothing and returns.
AbsentAlertNotEmitted ==
  [][\A i \in Inst : \A t \in 1..Len(tasks[i]) :
       (/\ tasks[i][t].pc = "sleep" /\ tasks'[i][t].pc # "sleep"
        /\ ~kv[alertPath(opts)].exists)
       => /\ tasks'[i][t].pc = "done"
          /\ emitted' = emitted
          /\ kv' = kv
          /\ alertLock'[i] = 0]_vars

\* The only proposal, for a failing status, has returned without an alert,
\* the alert key being absent.
AbsentAlertReturned ==
  /\ ~kv[alertPath(opts)].exists
  /\ emitted = <<>>
  /\ \E i \in Inst : /\ Len(tasks[i]) = 1 /\ tasks[i][1].pc = "done"
                      /\ lastAlertStatus[i] # HealthPassing

\* C29: a stored value that does not parse is handled like an absent one.
\* A tryAlert that finds a corrupt alert blob goes on from a freshly seeded
\* AlertState (last_alerted passing, first update_index), and the rehydration
\* callback loads every check state that parses while skipping the corrupt
\* one.
CorruptBlobTreatedAsAbsent ==
  [][\A i \in Inst :
       /\ \A t \in 1..Len(tasks[i]) :
            (/\ tasks[i][t].pc = "start" /\ tasks'[i][t].pc # "start"
             /\ kv[alertPath(opts)].raw = "corrupt")
            => /\ tasks'[i][t].pc = "put1"
               /\ tasks'[i][t].alert = proposeAlert(getAlertState(NoKey), UpdateOf(tasks[i][t]), opts)
       /\ (lpc[i] # "setacq" /\ lpc'[i] = "setacq") =>
            \A k \in VisibleChecks(opts) :
              IF kv[SubjectCheckPath(k)].raw = "json"
              THEN /\ k \in DOMAIN lastCheckStatus'[i]
                   /\ lastCheckStatus'[i][k] = getCheckState(kv[SubjectCheckPath(k)]).cs.Status
              ELSE k \notin DOMAIN lastCheckStatus'[i]]_vars

\* C30: when client.LockKey fails in a watch, only that watch is abandoned:
\* the process keeps running, and the discovery worker and the other
\* watches are left as they are.
LockKeyFailureAbandonsOneWatch ==
  [][\A m \in 1..Len(monitors) :
       (monitors[m].pc = "top" /\ monitors'[m].pc = "failed") =>
         /\ spc' = spc
         /\ dpc' = dpc
         /\ \A n \in 1..Len(monitors) \ {m} : monitors'[n] = monitors[n]]_vars

\* C31: a proposal that was in its quiescence sleep when its leader ended is
\* not lost: once a leader has settled on a failing status of the subject
\* for which a proposal is stored, and nothing is pending, that status has
\* been alerted.
PendingAlertResumed ==
  (/\ Quiescent /\ Aggregate(opts, health) # HealthPassing
   /\ StoredAlert.status = Aggregate(opts, health)) =>
    \E k \in 1..Len(emitted) : emitted[k].status = Aggregate(opts, health)

\* C32: a leader emits nothing on the handoff alone: a daemon spawns a
\* tryAlert only at the end of a cycle whose diff found a check that is new
\* or differs from its lastCheckStatus, and a handler is invoked for a daemon only by a
\* tryAlert of that daemon that has ended its sleep and found its alert due.
NoEmissionOnHandoffAlone ==
  [][\A i \in Inst :
       /\ Len(tasks'[i]) > Len(tasks[i]) => DOMAIN cycle[i].updates # {}
       /\ (Len(emitted') > Len(emitted) /\ emitted'[Len(emitted')].inst = i) =>
            \E t \in 1..Len(tasks[i]) : tasks[i][t].pc = "alert" /\ tasks'[i][t].pc = "put2"]_vars

\* A second leader has settled without a proposal of its own although the
\* stored last_alerted differs from the aggregate of the stored check states.
SecondLeaderSilent ==
  /\ Quiescent
  /\ losses > 0
  /\ emitted = <<>>
  /\ \E i \in Inst : lockHolder = i /\ tasks[i] = <<>>
  /\ StoredCheckStatus = [k \in VisibleChecks(opts) |-> health[k]]
  /\ StoredLastAlerted # Aggregate(opts, health)

\* The tryAlerts of daemon i that are inside a critical section.
InCriticalSection(i) ==
  {t \in 1..Len(tasks[i]) : tasks[i][t].pc \in {"put1", "alert", "put2"}}

\* C33: for one monitor at most one tryAlert is inside a critical section,
\* that tryAlert is the holder of alertLock, and alertLock is free whenever
\* no tryAlert is inside one: during the sleeps and after every return, the
\* error returns included.
AlertLockExclusive ==
  \A i \in Inst :
    /\ Cardinality(InCriticalSection(i)) <= 1
    /\ \A t \in InCriticalSection(i) : alertLock[i] = t
    /\ InCriticalSection(i) = {} => alertLock[i] = 0

\* Two proposals for failing statuses have returned without an alert, the
\* alert blob being corrupt: the later one returned on the error of
\* getAlertState.
ErrorReturnsReleased ==
  \E i \in Inst :
    /\ Len(tasks[i]) = 2 /\ tasks[i][1].pc = "done" /\ tasks[i][2].pc = "done"
    /\ changes = 2 /\ Aggregate(opts, health) = HealthCritical
    /\ emitted = <<>>
    /\ kv[alertPath(opts)].raw = "corrupt"
    /\ alertLock[i] = 0

\* C34: once LockHelper.stop() has returned in the watch of a daemon, that
\* daemon does not hold the subject's key and its acquired flag is false,
\* and both stay so, also when stop() ran while the start loop was inside a
\* succeeding acquisition or inside the callback.
StoppedLockStaysReleased ==
  \A i \in Inst :
    wpc[i] \in {"ack", "returned"} => ~acquired[i] /\ lockHolder # i

\* C35: after the shutdown signal the senders of the discovery worker can
\* all complete their two sends, so that wg.Wait() returns, the worker makes
\* its second receive and shutdown() finishes: no sender of the wait group
\* is blocked on a channel that no monitor receives from.
ShutdownSendsComplete ==
  dpc = "wait" => nilSends = 0

\* C36: once the watch of a daemon has handled its stop signal and
\* LockHelper.stop() has released the lock, no tryAlert that watch spawned
\* invokes a handler or writes the AlertState when its sleep ends.
StoppedMonitorStaysSilent ==
  [][\A i \in Inst :
       wpc[i] \in {"ack", "returned"} =>
         /\ \A t \in 1..Len(tasks[i]) :
              (tasks[i][t].pc = "sleep" /\ tasks'[i][t].pc # "sleep") => tasks'[i][t].pc = "done"
         /\ Len(emitted') > Len(emitted) => emitted'[Len(emitted')].inst # i]_vars

\* C37: the update_index stored in the subject's AlertState never decreases,
\* whichever daemon writes, also around a handoff.
UpdateIndexNeverDecreases ==
  [][AlertIn(kv').update_index >= StoredAlert.update_index]_vars

\* C38: once the leader has processed the current health snapshot and no
\* proposal is pending, the aggregate status it alerts on is the maximum
\* severity of the subject's checks in that snapshot; a deregistered check
\* contributes nothing.
SnapshotAggregateUsed ==
  Quiescent => \A i \in Inst : lockHolder = i => lastAlertStatus[i] = Aggregate(opts, health)

\* A watch goroutine that has not yet returned, with its LockHelper.
LiveMonitor(m) == monitors[m].pc \notin {"returned", "failed"}

\* C39: within one daemon at most one live monitor exists per subject at any
\* time, also when a subject leaves one snapshot and is back in the next
\* before its retired monitor has handled the stop signal.
OneLiveMonitorPerSubject ==
  \A m, n \in 1..Len(monitors) :
    (LiveMonitor(m) /\ LiveMonitor(n) /\ monitors[m].key = monitors[n].key) => m = n

====
